---- MODULE Spec2Model ----
(***************************************************************************)
(* A model of sqlyte-db: the pager (page cache over one file), the node    *)
(* codec (typed fields at byte offsets of a 4096-byte page), the B+-tree   *)
(* (find, leaf insert/split, internal insert/split, create_new_root), the  *)
(* scan cursor and the REPL commands insert, select, .exit.                *)
(*                                                                         *)
(* A page is a record of the fields the code reads and writes.  Fields     *)
(* that share bytes in the C layout share storage here:                    *)
(*   num   bytes  6..9   leaf num_cells       = internal num_keys          *)
(*   link  bytes 10..13  leaf next_leaf       = internal right_child       *)
(*   lk[0] bytes 14..17  leaf key 0           = internal cell 0 child      *)
(*   lv[0].id    18..21  leaf row 0 id        = internal cell 0 key        *)
(* Internal cells 1..3 (bytes 22..45) lie inside the username bytes of     *)
(* leaf row 0; the code never reads a page as a leaf row after it wrote    *)
(* internal cells to it, nor the reverse, so they are kept in ic.          *)
(***************************************************************************)
EXTENDS Integers, Sequences, FiniteSets, TLC

\* ------------------------------------------------------------------------
\* Program constants (db.h)
\* ------------------------------------------------------------------------
COLUMN_USERNAME_SIZE == 32
COLUMN_EMAIL_SIZE == 255
TABLE_MAX_PAGES == 100
NO_SIBLING == 0
PAGE_SIZE == 4096
NODE_INTERNAL == 0
NODE_LEAF == 1
ID_SIZE == 4
USERNAME_SIZE == COLUMN_USERNAME_SIZE + 1
EMAIL_SIZE == COLUMN_EMAIL_SIZE + 1
ROW_SIZE == ID_SIZE + USERNAME_SIZE + EMAIL_SIZE
COMMON_NODE_HEADER_SIZE == 6
LEAF_NODE_HEADER_SIZE == COMMON_NODE_HEADER_SIZE + 4 + 4
LEAF_NODE_KEY_SIZE == 4
LEAF_NODE_CELL_SIZE == LEAF_NODE_KEY_SIZE + ROW_SIZE
LEAF_NODE_SPACE_FOR_CELLS == PAGE_SIZE - LEAF_NODE_HEADER_SIZE
LEAF_NODE_MAX_CELLS == LEAF_NODE_SPACE_FOR_CELLS \div LEAF_NODE_CELL_SIZE
\* a split that leaves one cell in the old leaf
LEAF_NODE_RIGHT_SPLIT_COUNT_all == LEAF_NODE_MAX_CELLS

LEAF_NODE_RIGHT_SPLIT_COUNT == (LEAF_NODE_MAX_CELLS + 1) \div 2
LEAF_NODE_LEFT_SPLIT_COUNT == (LEAF_NODE_MAX_CELLS + 1) - LEAF_NODE_RIGHT_SPLIT_COUNT
\* The header that defines these two is not among the sources; the values
\* are the ones the specification and the .btree tests give.
INTERNAL_NODE_MAX_KEYS == 3
\* 0xFFFFFFFF: a u32 is kept as the 32-bit integer with the same bits
INVALID_PAGE_NUM == -1
root_page_num == 0

\* a > b for two u32 values
u32_gt(a, b) == IF (a < 0) = (b < 0) THEN a > b ELSE a < 0

\* ------------------------------------------------------------------------
\* Bounds of the model
\* ------------------------------------------------------------------------
MaxKey == 92            \* regular keys are 1..MaxKey
MaxWildKey == 24        \* an out-of-order insert draws its key from 0..MaxWildKey
WildWindow == 21        \* out-of-order inserts happen among the first inserts
WildHorizon == 29       \* a run with an out-of-order insert has this many inserts
MaxWild == 1            \* out-of-order inserts per run
MaxSessions == 2        \* sessions (processes) per run
SessionHorizon == 30    \* a run that reopens the file has this many inserts

\* ------------------------------------------------------------------------
\* Rows and pages
\* ------------------------------------------------------------------------
\* A string is [tag, len]: the len characters of the text with that tag (the
\* n-th command's argument has tag n); the bytes of a zeroed buffer are the
\* empty string.
Str(tag, len) == [tag |-> tag, len |-> len]

ZeroRow == [id |-> 0, username |-> Str(0, 0), email |-> Str(0, 0)]

ZeroPage ==
    [type |-> NODE_INTERNAL, is_root |-> 0, parent |-> 0, num |-> 0, link |-> 0,
     lk |-> [i \in 0..(LEAF_NODE_MAX_CELLS - 1) |-> 0],
     lv |-> [i \in 0..(LEAF_NODE_MAX_CELLS - 1) |-> ZeroRow],
     ic |-> [i \in 1..INTERNAL_NODE_MAX_KEYS |-> [child |-> 0, key |-> 0]]]

\* memcpy(dest, field, size) of a char array that holds a string: the string
\* and its terminator when they fit in size bytes, its first size characters
\* otherwise
copy_field(str, size) ==
    IF str.len < size THEN str ELSE Str(str.tag, size)

\* serialize_row / deserialize_row copy the three fixed-width fields
serialize_row(row) ==
    [id |-> row.id, username |-> copy_field(row.username, USERNAME_SIZE),
     email |-> copy_field(row.email, EMAIL_SIZE)]
deserialize_row(v) ==
    [id |-> v.id, username |-> copy_field(v.username, USERNAME_SIZE),
     email |-> copy_field(v.email, EMAIL_SIZE)]

\* node codec: reads
get_node_type(p) == p.type
is_node_root(p) == p.is_root # 0
node_parent(p) == p.parent
leaf_node_num_cells(p) == p.num
leaf_node_next_leaf(p) == p.link
leaf_node_key(p, i) == p.lk[i]
leaf_node_value(p, i) == p.lv[i]
internal_node_num_keys(p) == p.num
internal_node_right_child(p) == p.link
internal_node_key(p, i) == IF i = 0 THEN p.lv[0].id ELSE p.ic[i].key
internal_node_cell_child(p, i) == IF i = 0 THEN p.lk[0] ELSE p.ic[i].child

\* node codec: writes
set_internal_key(p, i, k) ==
    IF i = 0 THEN [p EXCEPT !.lv[0].id = k] ELSE [p EXCEPT !.ic[i].key = k]
set_internal_cell_child(p, i, c) ==
    IF i = 0 THEN [p EXCEPT !.lk[0] = c] ELSE [p EXCEPT !.ic[i].child = c]
\* memcpy(internal_node_cell(p, dst), internal_node_cell(p, src), CELL_SIZE)
copy_internal_cell(p, dst, src) ==
    set_internal_key(set_internal_cell_child(p, dst, internal_node_cell_child(p, src)),
                     dst, internal_node_key(p, src))
set_leaf_cell(p, i, key, row) ==
    [p EXCEPT !.lk[i] = key, !.lv[i] = serialize_row(row)]
\* memcpy(leaf_node_cell(p, dst), leaf_node_cell(q, src), LEAF_NODE_CELL_SIZE)
copy_leaf_cell(p, dst, q, src) ==
    [p EXCEPT !.lk[dst] = q.lk[src], !.lv[dst] = q.lv[src]]

init_leaf_node(p) ==
    [p EXCEPT !.type = NODE_LEAF, !.is_root = 0, !.num = 0, !.link = NO_SIBLING]
init_internal_node(p) ==
    [p EXCEPT !.type = NODE_INTERNAL, !.is_root = 0, !.num = 0,
              !.link = INVALID_PAGE_NUM]

\* ------------------------------------------------------------------------
\* Pager.  A pager state s is a record
\*   pages     the populated slots: a function from page numbers to pages
\*             (a slot outside its domain is NULL)
\*   num_pages pager->num_pages
\*   file      the file behind pager->fd, a sequence of pages
\*   file_len  pager->file_len, in bytes, as read by pager_open
\*   fatal     the process has called exit(EXIT_FAILURE)
\*   ub        the process has read outside a page buffer (undefined behaviour)
\*   over      some write left a node with more cells than its type holds
\*   oob       pager->pages[TABLE_MAX_PAGES], one past the end of the array, has
\*             been read and written (undefined behaviour)
\* ------------------------------------------------------------------------
\* a read that finds nothing in the file
read_no_page(s, page_num) == ZeroPage

read_file_page(s, page_num) ==
    LET whole == s.file_len \div PAGE_SIZE
        num_pages == IF s.file_len % PAGE_SIZE # 0 THEN whole + 1 ELSE whole
    IN  IF /\ ~u32_gt(page_num, num_pages)
           /\ page_num >= 0 /\ page_num < Len(s.file)
        THEN s.file[page_num + 1]
        ELSE ZeroPage            \* calloc'ed buffer; a read at EOF leaves it

get_page(s, page_num) ==
    IF s.fatal THEN s
    ELSE IF u32_gt(page_num, TABLE_MAX_PAGES) THEN [s EXCEPT !.fatal = TRUE]
    ELSE IF page_num \in DOMAIN s.pages THEN s
    ELSE [s EXCEPT !.pages = (page_num :> read_file_page(s, page_num)) @@ @,
                   !.num_pages = IF page_num >= @ THEN page_num + 1 ELSE @,
                   !.oob = @ \/ page_num >= TABLE_MAX_PAGES]

\* the buffer get_page(s, page_num) returns
Node(s, page_num) ==
    IF page_num \in DOMAIN s.pages THEN s.pages[page_num]
    ELSE read_file_page(s, page_num)

\* a node whose cell count is beyond the capacity of its type (a u32 count
\* that wrapped below 0 is beyond it too)
node_overfull(p) ==
    \/ p.num < 0
    \/ p.num > (IF get_node_type(p) = NODE_LEAF
                THEN LEAF_NODE_MAX_CELLS ELSE INTERNAL_NODE_MAX_KEYS)

\* a write through the pointer get_page returned
put(s, page_num, p) ==
    IF s.fatal THEN s
    ELSE [s EXCEPT !.pages[page_num] = p, !.over = @ \/ node_overfull(p)]

\* a page number one past the end of the pages in use, leaving a gap
get_unused_page_num_skipping(s) == s.num_pages + 1

get_unused_page_num(s) == s.num_pages

\* ------------------------------------------------------------------------
\* B+-tree search
\* ------------------------------------------------------------------------
\* binary search of leaf_node_find over the half-open interval [low, high)
RECURSIVE leaf_search(_, _, _, _)
leaf_search(node, key, low, high) ==
    IF high = low THEN low
    ELSE LET mid == low + ((high - low) \div 2)
             key_at_mid == leaf_node_key(node, mid)
         IN  IF key = key_at_mid THEN mid
             ELSE IF key > key_at_mid THEN leaf_search(node, key, mid + 1, high)
             ELSE leaf_search(node, key, low, mid)

\* the cursor leaf_node_find returns (end_of_table is left unset by it)
leaf_node_find(s, page_num, key) ==
    LET s1 == get_page(s, page_num)
        node == Node(s1, page_num)
    IN  [s |-> s1, page_num |-> page_num,
         cell_num |-> leaf_search(node, key, 0, leaf_node_num_cells(node))]

RECURSIVE find_child_search(_, _, _, _)
find_child_search(node, key, min_idx, max_idx) ==
    IF min_idx = max_idx THEN min_idx
    ELSE LET mid == (max_idx + min_idx) \div 2
             key_to_right == internal_node_key(node, mid)
         IN  IF key_to_right = key THEN mid
             ELSE IF key > key_to_right
                  THEN find_child_search(node, key, mid + 1, max_idx)
                  ELSE find_child_search(node, key, min_idx, mid)

internal_node_find_child(node, key) ==
    find_child_search(node, key, 0, internal_node_num_keys(node))

\* internal_node_left_child exits the process on these accesses
left_child_exits(node, child_num) ==
    \/ u32_gt(child_num, internal_node_num_keys(node))
    \/ /\ child_num = internal_node_num_keys(node)
       /\ internal_node_right_child(node) = INVALID_PAGE_NUM
    \/ /\ child_num < internal_node_num_keys(node)
       /\ internal_node_cell_child(node, child_num) = INVALID_PAGE_NUM

\* the page number *internal_node_left_child(node, child_num) reads
internal_node_left_child(node, child_num) ==
    IF child_num = internal_node_num_keys(node)
    THEN internal_node_right_child(node)
    ELSE internal_node_cell_child(node, child_num)

RECURSIVE internal_node_find(_, _, _)
internal_node_find(s, page_num, key) ==
    LET s1 == get_page(s, page_num)
        node == Node(s1, page_num)
        child_index == internal_node_find_child(node, key)
    IN  IF s1.fatal \/ left_child_exits(node, child_index)
        THEN [s |-> [s1 EXCEPT !.fatal = TRUE], page_num |-> 0, cell_num |-> 0]
        ELSE LET child_num == internal_node_left_child(node, child_index)
                 s2 == get_page(s1, child_num)
             IN  IF s2.fatal
                 THEN [s |-> s2, page_num |-> 0, cell_num |-> 0]
                 ELSE IF get_node_type(Node(s2, child_num)) = NODE_LEAF
                      THEN leaf_node_find(s2, child_num, key)
                      ELSE internal_node_find(s2, child_num, key)

table_find(s, key) ==
    LET s1 == get_page(s, root_page_num)
    IN  IF get_node_type(Node(s1, root_page_num)) = NODE_LEAF
        THEN leaf_node_find(s1, root_page_num, key)
        ELSE internal_node_find(s1, root_page_num, key)

\* get_node_max_key: [s, key]; follows right children down to a leaf
RECURSIVE get_node_max_key(_, _)
get_node_max_key(s, page_num) ==
    LET node == Node(s, page_num)
    IN  IF s.fatal THEN [s |-> s, key |-> 0]
        ELSE IF get_node_type(node) = NODE_INTERNAL
        THEN LET s1 == get_page(s, internal_node_right_child(node))
             IN  get_node_max_key(s1, internal_node_right_child(node))
        ELSE IF leaf_node_num_cells(node) = 0
             THEN [s |-> [s EXCEPT !.ub = TRUE], key |-> 0]  \* reads cell 2^32 - 1
             ELSE [s |-> s, key |-> leaf_node_key(node, leaf_node_num_cells(node) - 1)]

\* ------------------------------------------------------------------------
\* B+-tree insertion
\* ------------------------------------------------------------------------
\* a C local: v is evaluated once, to the value x, and F names it
Bind(v, F(_)) == CHOOSE r \in {F(x) : x \in {v}} : TRUE

\* *internal_node_left_child(node, child_num) read from page page_num:
\* [s, val], with the process exits of the accessor
read_left_child(s, page_num, child_num) ==
    LET node == Node(s, page_num)
    IN  IF s.fatal \/ left_child_exits(node, child_num)
        THEN [s |-> [s EXCEPT !.fatal = TRUE], val |-> 0]
        ELSE [s |-> s, val |-> internal_node_left_child(node, child_num)]

\* *internal_node_left_child(node, child_num) = val on page page_num
write_left_child(s, page_num, child_num, val) ==
    LET node == Node(s, page_num)
    IN  IF s.fatal \/ left_child_exits(node, child_num)
        THEN [s EXCEPT !.fatal = TRUE]
        ELSE IF child_num = internal_node_num_keys(node)
             THEN put(s, page_num, [node EXCEPT !.link = val])
             ELSE put(s, page_num, set_internal_cell_child(node, child_num, val))

\* *node_parent(get_page(page_num)) = parent
set_parent(s, page_num, parent) ==
    LET s1 == get_page(s, page_num)
    IN  put(s1, page_num, [Node(s1, page_num) EXCEPT !.parent = parent])

update_internal_node_key(s, page_num, old_key, new_key) ==
    LET node == Node(s, page_num)
        old_child_idx == internal_node_find_child(node, old_key)
    IN  put(s, page_num, set_internal_key(node, old_child_idx, new_key))

\* create_new_root without the loop that reparents the children
reparent_left_children_skipped(s, left_child_page_num, i) == s

\* create_new_root: the loop that reparents the children of the copied root
RECURSIVE reparent_left_children(_, _, _)
reparent_left_children(s, left_child_page_num, i) ==
    IF s.fatal \/ i = internal_node_num_keys(Node(s, left_child_page_num)) THEN s
    ELSE LET r == read_left_child(s, left_child_page_num, i)
         IN  reparent_left_children(set_parent(r.s, r.val, left_child_page_num),
                                    left_child_page_num, i + 1)

\* create_new_root without set_node_root(left_child, false): the copy of the
\* old root keeps its flag
create_new_root_keeps_flag(s, right_child_page_num) ==
    Bind(get_page(get_page(s, root_page_num), right_child_page_num), LAMBDA s1 :
    LET left_child_page_num == get_unused_page_num(s1)
        s2 == get_page(s1, left_child_page_num)
        root == Node(s2, root_page_num)
        s3 == IF get_node_type(root) = NODE_INTERNAL
              THEN put(put(s2, right_child_page_num,
                           init_internal_node(Node(s2, right_child_page_num))),
                       left_child_page_num,
                       init_internal_node(Node(s2, left_child_page_num)))
              ELSE s2
        \* memcpy(left_child, root, PAGE_SIZE)
        s4 == put(s3, left_child_page_num, root)
    IN
    Bind(IF get_node_type(Node(s4, left_child_page_num)) = NODE_INTERNAL
         THEN Bind(reparent_left_children(s4, left_child_page_num, 0), LAMBDA a :
                   set_parent(a, internal_node_right_child(Node(a, left_child_page_num)),
                              left_child_page_num))
         ELSE s4, LAMBDA s5 :
    Bind(get_node_max_key(
             write_left_child(put(s5, root_page_num,
                                  [init_internal_node(Node(s5, root_page_num))
                                       EXCEPT !.is_root = 1, !.num = 1]),
                              root_page_num, 0, left_child_page_num),
             left_child_page_num), LAMBDA m :
    set_parent(set_parent(put(m.s, root_page_num,
                              [set_internal_key(Node(m.s, root_page_num), 0, m.key)
                                   EXCEPT !.link = right_child_page_num]),
                          left_child_page_num, root_page_num),
               right_child_page_num, root_page_num))))

create_new_root(s, right_child_page_num) ==
    Bind(get_page(get_page(s, root_page_num), right_child_page_num), LAMBDA s1 :
    LET left_child_page_num == get_unused_page_num(s1)
        s2 == get_page(s1, left_child_page_num)
        root == Node(s2, root_page_num)
        s3 == IF get_node_type(root) = NODE_INTERNAL
              THEN put(put(s2, right_child_page_num,
                           init_internal_node(Node(s2, right_child_page_num))),
                       left_child_page_num,
                       init_internal_node(Node(s2, left_child_page_num)))
              ELSE s2
        \* memcpy(left_child, root, PAGE_SIZE); set_node_root(left_child, false)
        s4 == put(s3, left_child_page_num, [root EXCEPT !.is_root = 0])
    IN
    Bind(IF get_node_type(Node(s4, left_child_page_num)) = NODE_INTERNAL
         THEN Bind(reparent_left_children(s4, left_child_page_num, 0), LAMBDA a :
                   set_parent(a, internal_node_right_child(Node(a, left_child_page_num)),
                              left_child_page_num))
         ELSE s4, LAMBDA s5 :
    Bind(get_node_max_key(
             write_left_child(put(s5, root_page_num,
                                  [init_internal_node(Node(s5, root_page_num))
                                       EXCEPT !.is_root = 1, !.num = 1]),
                              root_page_num, 0, left_child_page_num),
             left_child_page_num), LAMBDA m :
    set_parent(set_parent(put(m.s, root_page_num,
                              [set_internal_key(Node(m.s, root_page_num), 0, m.key)
                                   EXCEPT !.link = right_child_page_num]),
                          left_child_page_num, root_page_num),
               right_child_page_num, root_page_num))))

\* internal_node_insert: for (i = original_num_keys; i > index; --i) memcpy
RECURSIVE shift_internal_cells(_, _, _)
shift_internal_cells(node, i, index) ==
    IF i > index
    THEN shift_internal_cells(copy_internal_cell(node, i, i - 1), i - 1, index)
    ELSE node

RECURSIVE internal_node_insert(_, _, _)
RECURSIVE internal_node_split_and_insert(_, _, _)
RECURSIVE move_upper_cells(_, _, _, _)

internal_node_insert(s, parent_page_num, child_page_num) ==
    Bind(get_node_max_key(get_page(get_page(s, parent_page_num), child_page_num),
                          child_page_num), LAMBDA m :
    LET child_max_key == m.key
        parent == Node(m.s, parent_page_num)
        index == internal_node_find_child(parent, child_max_key)
        original_num_keys == internal_node_num_keys(parent)
        right_child_page_num == internal_node_right_child(parent)
    IN
    IF m.s.fatal THEN m.s
    ELSE IF original_num_keys >= INTERNAL_NODE_MAX_KEYS
    THEN internal_node_split_and_insert(m.s, parent_page_num, child_page_num)
    ELSE IF \/ right_child_page_num = INVALID_PAGE_NUM
            \/ u32_gt(right_child_page_num, INVALID_PAGE_NUM)
    THEN put(m.s, parent_page_num, [parent EXCEPT !.link = child_page_num])
    ELSE
      Bind(get_node_max_key(put(get_page(m.s, right_child_page_num), parent_page_num,
                                [parent EXCEPT !.num = original_num_keys + 1]),
                            right_child_page_num), LAMBDA r :
      IF child_max_key > r.key
      THEN Bind(write_left_child(r.s, parent_page_num, original_num_keys,
                                 right_child_page_num), LAMBDA a :
                put(a, parent_page_num,
                    [set_internal_key(Node(a, parent_page_num), original_num_keys,
                                      r.key)
                         EXCEPT !.link = child_page_num]))
      ELSE Bind(write_left_child(put(r.s, parent_page_num,
                                     shift_internal_cells(Node(r.s, parent_page_num),
                                                          original_num_keys, index)),
                                 parent_page_num, index, child_page_num), LAMBDA b :
                put(b, parent_page_num,
                    set_internal_key(Node(b, parent_page_num), index,
                                     child_max_key)))))

\* internal_node_split_and_insert: while (i != mid) move cell i to the new node
move_upper_cells(s, old_page_num, new_page_num, i) ==
    IF s.fatal \/ i = INTERNAL_NODE_MAX_KEYS \div 2 THEN s
    ELSE Bind(read_left_child(s, old_page_num, i), LAMBDA r :
         Bind(set_parent(internal_node_insert(get_page(r.s, r.val), new_page_num,
                                              r.val),
                         r.val, new_page_num), LAMBDA s3 :
         move_upper_cells(put(s3, old_page_num,
                              [Node(s3, old_page_num) EXCEPT !.num = @ - 1]),
                          old_page_num, new_page_num, i - 1)))

\* internal_node_split_and_insert, the branch if (is_node_root(old_node)):
\* [s, parent, old_page_num]
split_root_branch(s, new_page_num) ==
    Bind(read_left_child(create_new_root(s, new_page_num), root_page_num, 0),
         LAMBDA r :
    [s |-> get_page(r.s, r.val), parent |-> root_page_num, old_page_num |-> r.val])

\* internal_node_split_and_insert, the else branch: [s, parent, old_page_num]
split_inner_branch(s, parent_page_num, new_page_num) ==
    LET pp == node_parent(Node(s, parent_page_num))
        a == get_page(get_page(s, pp), new_page_num)
    IN  [s |-> put(a, new_page_num, init_internal_node(Node(a, new_page_num))),
         parent |-> pp, old_page_num |-> parent_page_num]

\* internal_node_split_and_insert, from its entry to the end of that if/else:
\* [s, old_max, child_max, new_page_num, splitting_root, parent, old_page_num]
split_prepare(s, parent_page_num, child_page_num) ==
    LET mo == get_node_max_key(get_page(s, parent_page_num), parent_page_num)
        mc == get_node_max_key(get_page(mo.s, child_page_num), child_page_num)
        new_page_num == get_unused_page_num(mc.s)
        splitting_root == is_node_root(Node(mc.s, parent_page_num))
    IN
    Bind(IF splitting_root
         THEN split_root_branch(mc.s, new_page_num)
         ELSE split_inner_branch(mc.s, parent_page_num, new_page_num), LAMBDA br :
    [s |-> br.s, old_max |-> mo.key, child_max |-> mc.key,
     new_page_num |-> new_page_num, splitting_root |-> splitting_root,
     parent |-> br.parent, old_page_num |-> br.old_page_num])

\* the move that leaves the old node without a right child
split_move_cells_no_right_child(s, old_page_num, new_page_num) ==
    LET curr_page_num == internal_node_right_child(Node(s, old_page_num))
    IN
    Bind(set_parent(internal_node_insert(get_page(s, curr_page_num), new_page_num,
                                         curr_page_num),
                    curr_page_num, new_page_num), LAMBDA s4 :
    Bind(move_upper_cells(put(s4, old_page_num,
                              [Node(s4, old_page_num)
                                   EXCEPT !.link = INVALID_PAGE_NUM]),
                          old_page_num, new_page_num, INTERNAL_NODE_MAX_KEYS - 1),
         LAMBDA s6 :
    put(s6, old_page_num, [Node(s6, old_page_num) EXCEPT !.num = @ - 1])))

\* internal_node_split_and_insert: the old node's right child and upper cells
\* move to the new node, and the cell before the middle key becomes its right child
split_move_cells(s, old_page_num, new_page_num) ==
    LET curr_page_num == internal_node_right_child(Node(s, old_page_num))
    IN
    Bind(set_parent(internal_node_insert(get_page(s, curr_page_num), new_page_num,
                                         curr_page_num),
                    curr_page_num, new_page_num), LAMBDA s4 :
    Bind(move_upper_cells(put(s4, old_page_num,
                              [Node(s4, old_page_num)
                                   EXCEPT !.link = INVALID_PAGE_NUM]),
                          old_page_num, new_page_num, INTERNAL_NODE_MAX_KEYS - 1),
         LAMBDA s6 :
    Bind(read_left_child(s6, old_page_num,
                         internal_node_num_keys(Node(s6, old_page_num)) - 1),
         LAMBDA rl :
    put(rl.s, old_page_num,
        [Node(rl.s, old_page_num) EXCEPT !.link = rl.val, !.num = @ - 1]))))

\* the split that never places the incoming child
split_place_child_dropped(s, old_page_num, new_page_num, child_page_num, child_max) ==
    s

\* internal_node_split_and_insert: the child goes to the old or to the new node
split_place_child(s, old_page_num, new_page_num, child_page_num, child_max) ==
    Bind(get_node_max_key(s, old_page_num), LAMBDA ma :
    LET destination_page_num ==
            IF child_max < ma.key THEN old_page_num ELSE new_page_num
    IN  set_parent(internal_node_insert(ma.s, destination_page_num, child_page_num),
                   child_page_num, destination_page_num))

\* internal_node_split_and_insert, up to update_internal_node_key:
\* [s, new_page_num, splitting_root, old_page_num]
internal_node_split(s, parent_page_num, child_page_num) ==
    Bind(split_prepare(s, parent_page_num, child_page_num), LAMBDA f :
    Bind(split_move_cells(f.s, f.old_page_num, f.new_page_num), LAMBDA s7 :
    Bind(split_place_child(s7, f.old_page_num, f.new_page_num, child_page_num,
                           f.child_max), LAMBDA s8 :
    Bind(get_node_max_key(s8, f.old_page_num), LAMBDA mn :
    [s |-> update_internal_node_key(mn.s, f.parent, f.old_max, mn.key),
     new_page_num |-> f.new_page_num, splitting_root |-> f.splitting_root,
     old_page_num |-> f.old_page_num]))))

internal_node_split_and_insert(s, parent_page_num, child_page_num) ==
    Bind(internal_node_split(s, parent_page_num, child_page_num), LAMBDA f :
    IF f.splitting_root THEN f.s
    ELSE LET gp == node_parent(Node(f.s, f.old_page_num))
         IN  Bind(internal_node_insert(f.s, gp, f.new_page_num), LAMBDA a :
             set_parent(a, f.new_page_num, gp)))

\* the loop iteration that never shifts: a cell above the new one is copied
\* from its own index
split_cell_no_shift(b, i, cell_num, key, value) ==
    LET to_new == i >= LEAF_NODE_LEFT_SPLIT_COUNT
        index_within_node == i % LEAF_NODE_LEFT_SPLIT_COUNT
        dest == IF to_new THEN b.new ELSE b.old
        d1 == IF i = cell_num
              THEN set_leaf_cell(dest, index_within_node, key, value)
              ELSE copy_leaf_cell(dest, index_within_node, b.old,
                                  IF i = LEAF_NODE_MAX_CELLS THEN i - 1 ELSE i)
    IN  IF to_new THEN [b EXCEPT !.new = d1] ELSE [b EXCEPT !.old = d1]

\* leaf_node_split_and_insert: iteration i of the loop
\* for (i = LEAF_NODE_MAX_CELLS; i >= 0; --i), on the pair of buffers [old, new]
split_cell(b, i, cell_num, key, value) ==
    LET to_new == i >= LEAF_NODE_LEFT_SPLIT_COUNT
        index_within_node == i % LEAF_NODE_LEFT_SPLIT_COUNT
        dest == IF to_new THEN b.new ELSE b.old
        d1 == IF i = cell_num
              THEN set_leaf_cell(dest, index_within_node, key, value)
              ELSE IF i > cell_num
                   THEN copy_leaf_cell(dest, index_within_node, b.old, i - 1)
                   ELSE copy_leaf_cell(dest, index_within_node, b.old, i)
    IN  IF to_new THEN [b EXCEPT !.new = d1] ELSE [b EXCEPT !.old = d1]

\* the iterations i = hi, hi - 1, .., lo of that loop, in this order
RECURSIVE split_cells(_, _, _, _, _, _)
split_cells(b, hi, lo, cell_num, key, value) ==
    IF hi = lo THEN split_cell(b, hi, cell_num, key, value)
    ELSE Bind(split_cells(b, hi, (hi + lo) \div 2 + 1, cell_num, key, value),
              LAMBDA b1 :
              split_cells(b1, (hi + lo) \div 2, lo, cell_num, key, value))

\* the split that links neither leaf: the new leaf keeps the next_leaf of
\* init_leaf_node and the old leaf keeps its own
leaf_node_split_unlinked(s, c, key, value) ==
    Bind(get_node_max_key(get_page(s, c.page_num), c.page_num), LAMBDA mo :
    LET new_page_num == get_unused_page_num(mo.s)
        s2 == get_page(mo.s, new_page_num)
        old0 == Node(s2, c.page_num)
        new0 == [init_leaf_node(Node(s2, new_page_num))
                     EXCEPT !.parent = node_parent(old0)]
    IN
    Bind(split_cells([old |-> old0, new |-> new0],
                     LEAF_NODE_MAX_CELLS, 0, c.cell_num, key, value), LAMBDA b :
    [s |-> put(put(s2, c.page_num, [b.old EXCEPT !.num = LEAF_NODE_LEFT_SPLIT_COUNT]),
               new_page_num, [b.new EXCEPT !.num = LEAF_NODE_RIGHT_SPLIT_COUNT]),
     old_max |-> mo.key, new_page_num |-> new_page_num]))

\* leaf_node_split_and_insert, up to the two cell counts: [s, old_max, new_page_num]
leaf_node_split(s, c, key, value) ==
    Bind(get_node_max_key(get_page(s, c.page_num), c.page_num), LAMBDA mo :
    LET new_page_num == get_unused_page_num(mo.s)
        s2 == get_page(mo.s, new_page_num)
        old0 == Node(s2, c.page_num)
        new0 == [init_leaf_node(Node(s2, new_page_num))
                     EXCEPT !.parent = node_parent(old0),
                            !.link = leaf_node_next_leaf(old0)]
    IN
    Bind(split_cells([old |-> [old0 EXCEPT !.link = new_page_num], new |-> new0],
                     LEAF_NODE_MAX_CELLS, 0, c.cell_num, key, value), LAMBDA b :
    [s |-> put(put(s2, c.page_num, [b.old EXCEPT !.num = LEAF_NODE_LEFT_SPLIT_COUNT]),
               new_page_num, [b.new EXCEPT !.num = LEAF_NODE_RIGHT_SPLIT_COUNT]),
     old_max |-> mo.key, new_page_num |-> new_page_num]))

\* leaf_node_split_and_insert, the else branch up to update_internal_node_key
update_parent_key(s, page_num, parent_page_num, old_max) ==
    Bind(get_node_max_key(s, page_num), LAMBDA mn :
    update_internal_node_key(get_page(mn.s, parent_page_num), parent_page_num,
                             old_max, mn.key))

leaf_node_split_and_insert(s, c, key, value) ==
    Bind(leaf_node_split(s, c, key, value), LAMBDA f :
    IF is_node_root(Node(f.s, c.page_num))
    THEN create_new_root(f.s, f.new_page_num)
    ELSE LET parent_page_num == node_parent(Node(f.s, c.page_num))
         IN  internal_node_insert(
                 update_parent_key(f.s, c.page_num, parent_page_num, f.old_max),
                 parent_page_num, f.new_page_num))

\* leaf_node_insert that splits only a leaf holding more than the maximum
leaf_node_insert_late_split(s, c, key, value) ==
    LET s1 == get_page(s, c.page_num)
        node == Node(s1, c.page_num)
        num_cells == leaf_node_num_cells(node)
    IN  IF num_cells > LEAF_NODE_MAX_CELLS
        THEN leaf_node_split_and_insert(s1, c, key, value)
        ELSE put(s1, c.page_num,
                 [node EXCEPT
                    !.num = num_cells + 1,
                    !.lk = [i \in DOMAIN node.lk |->
                              IF i = c.cell_num THEN key
                              ELSE IF i > c.cell_num /\ i <= num_cells
                                   THEN node.lk[i - 1] ELSE node.lk[i]],
                    !.lv = [i \in DOMAIN node.lv |->
                              IF i = c.cell_num THEN serialize_row(value)
                              ELSE IF i > c.cell_num /\ i <= num_cells
                                   THEN node.lv[i - 1] ELSE node.lv[i]]])

\* leaf_node_insert: the cells after the shift and the store at cell_num
leaf_node_insert(s, c, key, value) ==
    LET s1 == get_page(s, c.page_num)
        node == Node(s1, c.page_num)
        num_cells == leaf_node_num_cells(node)
    IN  IF num_cells >= LEAF_NODE_MAX_CELLS
        THEN leaf_node_split_and_insert(s1, c, key, value)
        ELSE put(s1, c.page_num,
                 [node EXCEPT
                    !.num = num_cells + 1,
                    !.lk = [i \in DOMAIN node.lk |->
                              IF i = c.cell_num THEN key
                              ELSE IF i > c.cell_num /\ i <= num_cells
                                   THEN node.lk[i - 1] ELSE node.lk[i]],
                    !.lv = [i \in DOMAIN node.lv |->
                              IF i = c.cell_num THEN serialize_row(value)
                              ELSE IF i > c.cell_num /\ i <= num_cells
                                   THEN node.lv[i - 1] ELSE node.lv[i]]])

\* exec_insert: [s, result]
exec_insert(s, row) ==
    LET s1 == get_page(s, root_page_num)
        num_cells == leaf_node_num_cells(Node(s1, root_page_num))
        key_to_insert == row.id
    IN
    Bind(table_find(s1, key_to_insert), LAMBDA c :
    IF c.s.fatal THEN [s |-> c.s, result |-> "fatal"]
    ELSE IF /\ c.cell_num < num_cells
            /\ leaf_node_key(Node(c.s, root_page_num), c.cell_num) = key_to_insert
    THEN [s |-> c.s, result |-> "EXECUTE_DUPLICATE_KEY"]
    ELSE Bind(leaf_node_insert(c.s, c, key_to_insert, row), LAMBDA s2 :
         [s |-> s2, result |-> IF s2.fatal THEN "fatal" ELSE "EXECUTE_SUCCESS"]))

\* ------------------------------------------------------------------------
\* Ordered scan: table_start, cursor_value, cursor_advance, exec_select
\* ------------------------------------------------------------------------
\* a scan visits each page at most once unless the leaf chain cycles
ScanFuel == TABLE_MAX_PAGES + 1

\* [s, page_num, cell_num, end_of_table]
table_start(s) ==
    Bind(table_find(s, 0), LAMBDA c :
    Bind(get_page(c.s, c.page_num), LAMBDA s1 :
    [s |-> s1, page_num |-> c.page_num, cell_num |-> c.cell_num,
     end_of_table |-> (leaf_node_num_cells(Node(s1, c.page_num)) = 0)]))

cursor_value(c) == leaf_node_value(Node(c.s, c.page_num), c.cell_num)

\* cursor_advance that ends the scan at the end of every leaf
cursor_advance_one_leaf(c) ==
    LET s1 == get_page(c.s, c.page_num)
        cell_num == c.cell_num + 1
    IN  IF cell_num < leaf_node_num_cells(Node(s1, c.page_num))
        THEN [c EXCEPT !.s = s1, !.cell_num = cell_num]
        ELSE [c EXCEPT !.s = s1, !.cell_num = cell_num, !.end_of_table = TRUE]

cursor_advance(c) ==
    LET s1 == get_page(c.s, c.page_num)
        node == Node(s1, c.page_num)
        cell_num == c.cell_num + 1
    IN  IF cell_num < leaf_node_num_cells(node)
        THEN [c EXCEPT !.s = s1, !.cell_num = cell_num]
        ELSE IF leaf_node_next_leaf(node) = NO_SIBLING      \* is_last_leaf_node
             THEN [c EXCEPT !.s = s1, !.cell_num = cell_num, !.end_of_table = TRUE]
             ELSE [c EXCEPT !.s = s1, !.page_num = leaf_node_next_leaf(node),
                            !.cell_num = 0]

\* the loop of exec_select, one leaf at a time: the cursor prints the cells
\* cell_num .. num_cells - 1 of its leaf (cursor_advance only increments
\* cell_num between them) and the advance from the last one leaves the leaf.
\* [c, rows, stop]: the cursor, the rows printed so far, the loop has ended
select_leaf(st) ==
    IF st.stop THEN st
    ELSE IF st.c.s.fatal \/ st.c.end_of_table THEN [st EXCEPT !.stop = TRUE]
    ELSE LET c == st.c
             s1 == get_page(c.s, c.page_num)
             node == Node(s1, c.page_num)
             num_cells == leaf_node_num_cells(node)
             last_cell == IF c.cell_num < num_cells THEN num_cells - 1 ELSE c.cell_num
             printed == [i \in 1..(last_cell - c.cell_num + 1) |->
                           deserialize_row(cursor_value(
                               [c EXCEPT !.s = s1, !.cell_num = c.cell_num + i - 1]))]
             c1 == cursor_advance([c EXCEPT !.s = s1, !.cell_num = last_cell])
         IN  IF last_cell >= LEAF_NODE_MAX_CELLS
             THEN [c |-> [c EXCEPT !.s = [s1 EXCEPT !.ub = TRUE]], rows |-> st.rows,
                   stop |-> TRUE]
             ELSE [c |-> c1, rows |-> st.rows \o printed, stop |-> FALSE]

\* `fuel` passes of the loop, the first half of them and then the rest
RECURSIVE select_loop(_, _)
select_loop(st, fuel) ==
    IF st.stop \/ fuel = 0 THEN st
    ELSE IF fuel = 1 THEN select_leaf(st)
    ELSE Bind(select_loop(st, fuel \div 2), LAMBDA st1 :
              select_loop(st1, fuel - (fuel \div 2)))

\* [s, rows, done]; done is FALSE when the loop is still running after
\* ScanFuel leaves, that is, when it never ends
exec_select(s) ==
    Bind(select_loop([c |-> table_start(s), rows |-> <<>>, stop |-> FALSE], ScanFuel),
         LAMBDA st :
    [s |-> st.c.s, rows |-> st.rows,
     done |-> (st.stop \/ st.c.s.fatal \/ st.c.end_of_table)])

\* ------------------------------------------------------------------------
\* Table: db_open, db_close
\* ------------------------------------------------------------------------
\* A file is a sequence of pages; a file whose length is not a whole number
\* of pages ends with [tail |-> k], its last k < PAGE_SIZE bytes.
\* lseek(fd, 0, SEEK_END): the length of the file in bytes
FileLen(file) ==
    IF Len(file) > 0 /\ DOMAIN file[Len(file)] = {"tail"}
    THEN (Len(file) - 1) * PAGE_SIZE + file[Len(file)].tail
    ELSE Len(file) * PAGE_SIZE

\* pager_open without the test of the file length
pager_open_any_length(file) ==
    [pages |-> <<>>, num_pages |-> FileLen(file) \div PAGE_SIZE,
     file |-> file, file_len |-> FileLen(file),
     fatal |-> FALSE, ub |-> FALSE,
     over |-> FALSE, oob |-> FALSE]

pager_open(file) ==
    [pages |-> <<>>, num_pages |-> FileLen(file) \div PAGE_SIZE,
     file |-> file, file_len |-> FileLen(file),
     fatal |-> FileLen(file) % PAGE_SIZE # 0, ub |-> FALSE,
     over |-> FALSE, oob |-> FALSE]

\* db_open without the test num_pages == 0: page 0 is made an empty leaf root
\* on every start
db_open_always_new(file) ==
    LET pager == pager_open(file)
        s1 == get_page(pager, 0)
    IN  put(s1, 0, [init_leaf_node(Node(s1, 0)) EXCEPT !.is_root = 1])

db_open(file) ==
    LET pager == pager_open(file)
    IN  IF pager.num_pages = 0 /\ ~pager.fatal
        THEN LET s1 == get_page(pager, 0)
             IN  put(s1, 0, [init_leaf_node(Node(s1, 0)) EXCEPT !.is_root = 1])
        ELSE pager

\* the file after write(fd, page, PAGE_SIZE) at offset page_num * PAGE_SIZE
\* has written bytes_written bytes: the file grows, zero filled, up to the
\* bytes written; a page written in part keeps the rest of what it held
\* ([short |-> bytes_written, new |-> page, old |-> what it held]) or, at the
\* end of the file, is a tail of bytes_written bytes
write_page(file, page_num, page, bytes_written) ==
    IF bytes_written <= 0 THEN file
    ELSE LET n == IF page_num + 1 > Len(file) THEN page_num + 1 ELSE Len(file)
         IN  [i \in 1..n |->
                 IF i = page_num + 1
                 THEN IF bytes_written = PAGE_SIZE THEN page
                      ELSE IF i > Len(file) THEN [tail |-> bytes_written]
                      ELSE IF file[i] = page THEN page
                      ELSE [short |-> bytes_written, new |-> page, old |-> file[i]]
                 ELSE IF i <= Len(file) THEN file[i]
                 ELSE ZeroPage]

\* pager_flush when write() returns bytes_written: only a null slot and a
\* negative result end the process
pager_flush_write(s, page_num, bytes_written) ==
    IF page_num \notin DOMAIN s.pages THEN [s EXCEPT !.fatal = TRUE]
    ELSE IF bytes_written < 0 THEN [s EXCEPT !.fatal = TRUE]
    ELSE [s EXCEPT !.file = write_page(s.file, page_num, s.pages[page_num],
                                       bytes_written)]

\* pager_flush: lseek to page_num * PAGE_SIZE and write the page; the file
\* grows, zero filled, up to the page written
pager_flush(s, page_num) == pager_flush_write(s, page_num, PAGE_SIZE)

\* db_close: for (i = 0; i != num_pages; ++i) flush and free the populated slots
RECURSIVE flush_pages(_, _)
flush_pages(s, i) ==
    IF s.fatal \/ i = s.num_pages THEN s
    ELSE IF i \in DOMAIN s.pages
         THEN flush_pages(pager_flush(s, i), i + 1)
         ELSE flush_pages(s, i + 1)

\* db_close with the loop ending at num_pages - 1: the last page is not written
db_close_last_page_lost(s) ==
    [[flush_pages([s EXCEPT !.num_pages = IF @ > 0 THEN @ - 1 ELSE 0], 0)
        EXCEPT !.num_pages = s.num_pages] EXCEPT !.pages = <<>>]

db_close(s) == [flush_pages(s, 0) EXCEPT !.pages = <<>>]

\* ------------------------------------------------------------------------
\* Views of the tree a pager holds
\* ------------------------------------------------------------------------
MaxDepth == 6           \* levels of internal nodes a view descends

\* the child pointers of an internal node: its left children, then its right child
child_pointers(node) ==
    {internal_node_left_child(node, i) : i \in 0..internal_node_num_keys(node)}

\* the pages reachable from page n through child pointers
RECURSIVE subtree(_, _, _)
subtree(s, n, depth) ==
    LET node == Node(s, n)
    IN  IF depth = 0 \/ get_node_type(node) = NODE_LEAF THEN {n}
        ELSE {n} \cup UNION {subtree(s, c, depth - 1) : c \in child_pointers(node)}

tree_pages(s) == subtree(s, root_page_num, MaxDepth)
tree_leaves(s) == {n \in tree_pages(s) : get_node_type(Node(s, n)) = NODE_LEAF}

leaf_keys(node) == {leaf_node_key(node, i) : i \in 0..(leaf_node_num_cells(node) - 1)}

\* the keys stored in the leaves below page n
keys_under(s, n) ==
    UNION {leaf_keys(Node(s, p)) :
             p \in {q \in subtree(s, n, MaxDepth) : get_node_type(Node(s, q)) = NODE_LEAF}}

stored_keys(s) == keys_under(s, root_page_num)

\* the leaf reached from page n through cell 0 children
RECURSIVE leftmost_leaf(_, _, _)
leftmost_leaf(s, n, depth) ==
    LET node == Node(s, n)
    IN  IF depth = 0 \/ get_node_type(node) = NODE_LEAF THEN n
        ELSE leftmost_leaf(s, internal_node_left_child(node, 0), depth - 1)

\* the pages next_leaf visits from page n, up to `fuel` of them
RECURSIVE leaf_chain(_, _, _)
leaf_chain(s, n, fuel) ==
    IF fuel = 0 THEN <<>>
    ELSE LET next == leaf_node_next_leaf(Node(s, n))
         IN  IF next = NO_SIBLING THEN <<n>>
             ELSE <<n>> \o leaf_chain(s, next, fuel - 1)

\* ------------------------------------------------------------------------
\* Statements: prepare_insert, prepare_statement
\* ------------------------------------------------------------------------
\* The <id> of an insert line is a decimal number, kept as [neg, hi, lo]:
\* the number (-1)^neg * (hi * 2^16 + lo), with lo < 2^16.
Num(neg, hi, lo) == [neg |-> neg, hi |-> hi, lo |-> lo]

INT_MAX == 32767 * 65536 + 65535
INT_MIN == -INT_MAX - 1

\* the number fits an int
fits_int(t) ==
    \/ t.hi < 32768
    \/ t.neg /\ t.hi = 32768 /\ t.lo = 0

\* the int with the low 32 bits of the number
wrap_int(t) ==
    LET h == t.hi % 65536
        w == IF h >= 32768 THEN (h - 65536) * 65536 + t.lo ELSE h * 65536 + t.lo
    IN  IF t.neg /\ w # INT_MIN THEN -w ELSE w

\* atoi: the set of values it may return.  A number that fits an int is
\* returned; for any other the behaviour is undefined: the implementations
\* either keep the low 32 bits of the number or return the nearest int.
atoi(t) ==
    IF fits_int(t) THEN {wrap_int(t)}
    ELSE {wrap_int(t), IF t.neg THEN INT_MIN ELSE INT_MAX}

\* prepare_insert on the arguments after the keyword, <<id, username, email,
\* ...>>: the set of [result, row] it may return
prepare_insert(args) ==
    IF Len(args) < 3
    THEN {[result |-> "PREPARE_SYNTAX_ERROR", row |-> ZeroRow]}
    ELSE {IF id < 0
          THEN [result |-> "PREPARE_NEGATIVE_ID", row |-> ZeroRow]
          ELSE IF args[2].len > COLUMN_USERNAME_SIZE
          THEN [result |-> "PREPARE_STRING_TOO_LONG", row |-> ZeroRow]
          ELSE IF args[3].len > COLUMN_EMAIL_SIZE
          THEN [result |-> "PREPARE_STRING_TOO_LONG", row |-> ZeroRow]
          ELSE [result |-> "PREPARE_SUCCESS",
                row |-> [id |-> id, username |-> args[2], email |-> args[3]]]
            : id \in atoi(args[1])}

\* prepare_statement on a line that does not start with "insert"
prepare_statement(line) ==
    IF line = "select" THEN "PREPARE_SUCCESS" ELSE "PREPARE_UNRECOGNIZED_STATEMENT"

\* print_tree: the pager after the pages it fetched, [s]; levels bounds the
\* recursion
RECURSIVE print_tree(_, _, _)
RECURSIVE print_children(_, _, _, _)
print_tree(s, page_num, levels) ==
    Bind(get_page(s, page_num), LAMBDA s1 :
    IF s1.fatal \/ levels = 0 THEN s1
    ELSE IF get_node_type(Node(s1, page_num)) = NODE_LEAF THEN s1
    ELSE IF internal_node_num_keys(Node(s1, page_num)) >= 1
         THEN print_children(s1, page_num, 0, levels)
         ELSE s1)

\* for (i = 0; i != num_keys; ++i) print_tree(child i), then the right child
print_children(s, page_num, i, levels) ==
    IF s.fatal THEN s
    ELSE IF i = internal_node_num_keys(Node(s, page_num))
    THEN print_tree(s, internal_node_right_child(Node(s, page_num)), levels - 1)
    ELSE Bind(read_left_child(s, page_num, i), LAMBDA r :
         IF r.s.fatal THEN r.s
         ELSE Bind(print_tree(r.s, r.val, levels - 1), LAMBDA s2 :
              print_children(s2, page_num, i + 1, levels)))

\* exec_meta_cmd on a line that starts with "." and is not ".exit": [s, result]
exec_meta_cmd(s, line) ==
    IF line = ".btree"
    THEN [s |-> print_tree(s, 0, TABLE_MAX_PAGES), result |-> "META_CMD_SUCCESS"]
    ELSE IF line = ".constants" \/ line = ".help"
    THEN [s |-> s, result |-> "META_CMD_SUCCESS"]
    ELSE [s |-> s, result |-> "META_CMD_UNRECOGNIZED_CMD"]

\* ------------------------------------------------------------------------
\* The REPL (run_repl) and its environment
\* ------------------------------------------------------------------------
VARIABLES
    pager,      \* the pager of the running process and the file behind it
    status,     \* "running", "exited" (after .exit), "eof" (after end of input)
                \* or "failed" (exit(EXIT_FAILURE) or a crash)
    last,       \* the last command: cmd, key (of an insert), result, present (the
                \* key of an insert was stored in the tree when it was given),
                \* first (a select is the first command of its process), args
                \* (the arguments as typed, when the model draws them)
    out,        \* the rows the last select printed
    dir,        \* the order of the regular inserts: "asc" or "desc"
    nIns,       \* insert commands so far
    nReg,       \* regular inserts so far
    wild,       \* out-of-order inserts so far
    sessions,   \* processes started so far
    accepted,   \* the rows whose insert printed "executed."
    attempted,  \* the ids of all insert commands
    repeated,   \* some id was given to two insert commands
    ref,        \* the pager of one process that ran every insert, never closed
    shown       \* the rows a select would have printed just before the last .exit

vars == <<pager, status, last, out, dir, nIns, nReg, wild, sessions, accepted,
          attempted, repeated, ref, shown>>

\* the n-th insert command is "insert <id> user<n> person<n>@example.com"
RowOf(id, n) == [id |-> id, username |-> Str(n, 5), email |-> Str(n, 20)]

NextKey == IF dir = "asc" THEN nReg + 1 ELSE MaxKey - nReg

Init ==
    /\ pager = db_open(<<>>)
    /\ status = "running"
    /\ last = [cmd |-> "open", key |-> 0, result |-> "none", present |-> FALSE,
               first |-> TRUE, args |-> <<>>]
    /\ out = <<>>
    /\ dir \in {"asc", "desc"}
    /\ nIns = 0
    /\ nReg = 0
    /\ wild = 0
    /\ sessions = 1
    /\ accepted = {}
    /\ attempted = {}
    /\ repeated = FALSE
    /\ ref = db_open(<<>>)
    /\ shown = <<>>

\* "insert <id> ..." : prepare_insert, exec_insert and the result printed.
\* Once the insert has used pager->pages[TABLE_MAX_PAGES] the process may go
\* on as if the array had that slot, or crash.
DoInsertRow(row, args) ==
    LET id == row.id
        r == exec_insert(pager, row)
    IN  /\ pager' = r.s
        /\ ref' = exec_insert(ref, row).s
        /\ status' \in IF r.result = "fatal" \/ r.s.ub THEN {"failed"}
                       ELSE IF r.s.oob THEN {"running", "failed"}
                       ELSE {"running"}
        /\ last' = [cmd |-> "insert", key |-> id, result |-> r.result,
                    present |-> id \in stored_keys(pager), first |-> FALSE,
                    args |-> args]
        /\ out' = <<>>
        /\ nIns' = nIns + 1
        /\ accepted' = IF r.result = "EXECUTE_SUCCESS"
                       THEN accepted \cup {row} ELSE accepted
        /\ attempted' = attempted \cup {id}
        /\ repeated' = (repeated \/ id \in attempted)
        /\ UNCHANGED <<dir, sessions, shown>>

DoInsert(id) == DoInsertRow(RowOf(id, nIns + 1), <<>>)

InsertNext ==
    /\ status = "running"
    /\ nReg < MaxKey
    /\ wild > 0 => nIns < WildHorizon
    /\ sessions > 1 => nIns < SessionHorizon
    /\ DoInsert(NextKey)
    /\ nReg' = nReg + 1
    /\ wild' = wild

InsertWild ==
    /\ status = "running"
    /\ wild < MaxWild
    /\ sessions = 1
    /\ nReg <= WildWindow
    /\ \E id \in 0..MaxWildKey : DoInsert(id)
    /\ wild' = wild + 1
    /\ nReg' = nReg

\* "select"
Select ==
    /\ status = "running"
    /\ last.cmd # "select"
    /\ LET r == exec_select(pager)
       IN  /\ pager' = r.s
           /\ out' = r.rows
           /\ status' = IF r.s.fatal \/ ~r.done THEN "failed" ELSE "running"
           /\ last' = [cmd |-> "select", key |-> 0,
                       result |-> IF r.done THEN "EXECUTE_SUCCESS" ELSE "diverges",
                       present |-> FALSE, first |-> (last.cmd = "open"), args |-> <<>>]
    /\ UNCHANGED <<dir, nIns, nReg, wild, sessions, accepted, attempted, repeated,
                   ref, shown>>

\* ".exit": db_close, then exit(EXIT_SUCCESS)
Exit ==
    /\ status = "running"
    /\ LET s == db_close(pager)
       IN  /\ pager' = s
           /\ status' = IF s.fatal THEN "failed" ELSE "exited"
    /\ shown' = exec_select(pager).rows
    /\ last' = [cmd |-> "exit", key |-> 0, result |-> "none", present |-> FALSE,
                first |-> FALSE, args |-> <<>>]
    /\ out' = <<>>
    /\ UNCHANGED <<dir, nIns, nReg, wild, sessions, accepted, attempted, repeated,
                   ref>>

\* the program is started again on the same file: run_repl calls db_open
Open ==
    /\ status = "exited"
    /\ sessions < MaxSessions
    /\ wild = 0
    /\ nIns < SessionHorizon
    /\ pager' = db_open(pager.file)
    /\ status' = IF db_open(pager.file).fatal THEN "failed" ELSE "running"
    /\ sessions' = sessions + 1
    /\ last' = [cmd |-> "open", key |-> 0, result |-> "none", present |-> FALSE,
                first |-> TRUE, args |-> <<>>]
    /\ out' = <<>>
    /\ UNCHANGED <<dir, nIns, nReg, wild, accepted, attempted, repeated, ref, shown>>

Next == InsertNext \/ InsertWild \/ Select \/ Exit \/ Open

Spec == Init /\ [][Next]_vars

\* the runs without out-of-order inserts: ascending or descending keys, split
\* into processes by .exit and a restart
NextSessions == InsertNext \/ Select \/ Exit \/ Open

SpecSessions == Init /\ [][NextSessions]_vars

\* the runs that fill the leaf root with even keys and give one odd key at
\* any moment: the 14th key falls at every position among the 13 others
MaxEven == 20           \* even keys per run

EvenKey == IF dir = "asc" THEN 2 * (nReg + 1) ELSE 2 * (MaxEven - nReg)

InsertEven ==
    /\ status = "running"
    /\ nReg < MaxEven
    /\ DoInsert(EvenKey)
    /\ nReg' = nReg + 1
    /\ wild' = wild

InsertOdd ==
    /\ status = "running"
    /\ wild < MaxWild
    /\ nReg <= LEAF_NODE_MAX_CELLS
    /\ \E k \in 0..MaxEven : DoInsert(2 * k + 1)
    /\ wild' = wild + 1
    /\ nReg' = nReg

NextSplit == InsertEven \/ InsertOdd \/ Select

SpecSplit == Init /\ [][NextSplit]_vars

\* the runs that give ascending keys and, at any moment, one key a second time
RepeatWindow == 28      \* the repeated insert happens among the first inserts
RepeatHorizon == 37     \* inserts per run

InsertAsc ==
    /\ status = "running"
    /\ nIns < RepeatHorizon
    /\ DoInsert(nReg + 1)
    /\ nReg' = nReg + 1
    /\ wild' = wild

InsertAgain ==
    /\ status = "running"
    /\ wild < MaxWild
    /\ nReg <= RepeatWindow
    /\ \E id \in 1..nReg : DoInsert(id)
    /\ wild' = wild + 1
    /\ nReg' = nReg

NextRepeat == InsertAsc \/ InsertAgain \/ Select

InitRepeat == Init /\ dir = "asc"

SpecRepeat == InitRepeat /\ [][NextRepeat]_vars

\* the runs that first give some keys above MaxBelow in ascending order and
\* then the keys 1, 2, ... below them
MaxHigh == 63           \* keys above MaxBelow per run
MaxBelow == 64          \* keys from 1 upwards per run

InsertHigh ==
    /\ status = "running"
    /\ nReg = 0
    /\ wild < MaxHigh
    /\ DoInsert(MaxBelow + wild + 1)
    /\ wild' = wild + 1
    /\ nReg' = nReg

InsertBelow ==
    /\ status = "running"
    /\ nReg < MaxBelow
    /\ DoInsert(nReg + 1)
    /\ nReg' = nReg + 1
    /\ wild' = wild

NextBelow == InsertHigh \/ InsertBelow \/ Select

SpecBelow == InitRepeat /\ [][NextBelow]_vars

\* the runs that give the keys 0, 1, 2, ... and, at any moment, one of them
\* a second time
ZeroHorizon == 16       \* inserts per run

InsertFromZero ==
    /\ status = "running"
    /\ nIns < ZeroHorizon
    /\ DoInsert(nReg)
    /\ nReg' = nReg + 1
    /\ wild' = wild

InsertZeroAgain ==
    /\ status = "running"
    /\ nIns < ZeroHorizon
    /\ wild < MaxWild
    /\ \E id \in 0..(nReg - 1) : DoInsert(id)
    /\ wild' = wild + 1
    /\ nReg' = nReg

NextZero == InsertFromZero \/ InsertZeroAgain \/ Select

SpecZero == InitRepeat /\ [][NextZero]_vars

\* end of input handled like .exit: db_close writes the pages
Eof_with_close ==
    /\ status = "running"
    /\ pager' = db_close(pager)
    /\ status' = "eof"
    /\ last' = [cmd |-> "eof", key |-> 0, result |-> "none", present |-> FALSE,
                first |-> FALSE, args |-> <<>>]
    /\ out' = <<>>
    /\ UNCHANGED <<dir, nIns, nReg, wild, sessions, accepted, attempted,
                   repeated, ref, shown>>

\* end of input: read_input returns -1, run_repl leaves its loop and main
\* returns without db_close
Eof ==
    /\ status = "running"
    /\ status' = "eof"
    /\ last' = [cmd |-> "eof", key |-> 0, result |-> "none", present |-> FALSE,
                first |-> FALSE, args |-> <<>>]
    /\ out' = <<>>
    /\ UNCHANGED <<pager, dir, nIns, nReg, wild, sessions, accepted, attempted,
                   repeated, ref, shown>>

\* a command that fails before it reaches the table and ends the loop
Rejected_ends_loop(cmd, result, args) ==
    /\ last' = [cmd |-> cmd, key |-> 0, result |-> result, present |-> FALSE,
                first |-> FALSE, args |-> args]
    /\ out' = <<>>
    /\ status' = "eof"
    /\ UNCHANGED <<pager, dir, nIns, nReg, wild, sessions, accepted,
                   attempted, repeated, ref, shown>>

\* a command that fails before it reaches the table: the message is printed
\* and the loop goes on
Rejected(cmd, result, args) ==
    /\ last' = [cmd |-> cmd, key |-> 0, result |-> result, present |-> FALSE,
                first |-> FALSE, args |-> args]
    /\ out' = <<>>
    /\ UNCHANGED <<pager, status, dir, nIns, nReg, wild, sessions, accepted,
                   attempted, repeated, ref, shown>>

\* the ids, the lengths of username and email, and the argument lists of the
\* insert lines drawn
TypedIds ==
    {Num(TRUE, 65535, 65535), Num(TRUE, 32768, 0), Num(TRUE, 0, 1),
     Num(FALSE, 0, 0), Num(FALSE, 0, 7), Num(FALSE, 32767, 65535),
     Num(FALSE, 32768, 0), Num(FALSE, 65535, 65535), Num(FALSE, 65536, 5)}
TypedLens ==
    {<<1, 1>>, <<COLUMN_USERNAME_SIZE, COLUMN_EMAIL_SIZE>>,
     <<COLUMN_USERNAME_SIZE + 1, COLUMN_EMAIL_SIZE>>,
     <<COLUMN_USERNAME_SIZE, COLUMN_EMAIL_SIZE + 1>>}
TypedArgs(n) ==
    {<<id, Str(n, l[1]), Str(n, l[2])>> : id \in TypedIds, l \in TypedLens}
        \cup {<<Num(FALSE, 0, 7), Str(n, 1)>>,
              <<Num(FALSE, 0, 7), Str(n, 1), Str(n, 1), Str(n, 1)>>}

InputWindow == 16       \* drawn lines are given among the first inserts
InputHorizon == 30      \* a run with drawn lines has this many inserts

\* "insert <id> <username> <email>" with drawn arguments
InsertTyped ==
    /\ status = "running"
    /\ wild < MaxWild
    /\ sessions = 1
    /\ nReg <= InputWindow
    /\ \E args \in TypedArgs(nIns + 1) : \E o \in prepare_insert(args) :
           IF o.result = "PREPARE_SUCCESS"
           THEN DoInsertRow(o.row, args) /\ wild' = wild + 1 /\ nReg' = nReg
           ELSE Rejected("insert", o.result, args)

\* the lines drawn that are neither insert, select nor .exit
OtherLines == {".btree", ".constants", ".help", ".tables", "update", "select 1"}
DotLines == {".btree", ".constants", ".help", ".tables"}

\* a meta command other than .exit, or a line prepare_statement refuses
Other ==
    /\ status = "running"
    /\ wild < MaxWild
    /\ sessions = 1
    /\ nReg <= InputWindow
    /\ \E line \in OtherLines :
           IF line \in DotLines
           THEN LET r == exec_meta_cmd(pager, line)
                IN  /\ pager' = r.s
                    /\ status' = IF r.s.fatal THEN "failed" ELSE "running"
                    /\ last' = [cmd |-> line, key |-> 0, result |-> r.result,
                                present |-> FALSE, first |-> FALSE, args |-> <<>>]
                    /\ out' = <<>>
                    /\ UNCHANGED <<dir, nIns, nReg, wild, sessions, accepted,
                                   attempted, repeated, ref, shown>>
           ELSE Rejected(line, prepare_statement(line), <<>>)

InsertShort == nIns < InputHorizon /\ InsertNext

\* the runs with drawn lines: keys in order, and among them insert lines with
\* drawn arguments, meta commands and lines that are no statement
NextInput == InsertShort \/ InsertTyped \/ Other \/ Select

SpecInput == Init /\ [][NextInput]_vars

\* between two processes something else appends k bytes, less than a page, to
\* the file
Tails == {1, PAGE_SIZE \div 2, PAGE_SIZE - 1}

Damage ==
    /\ status = "exited"
    /\ FileLen(pager.file) % PAGE_SIZE = 0
    /\ \E k \in Tails : pager' = [pager EXCEPT !.file = @ \o <<[tail |-> k]>>]
    /\ last' = [cmd |-> "damage", key |-> 0, result |-> "none", present |-> FALSE,
                first |-> FALSE, args |-> <<>>]
    /\ UNCHANGED <<status, out, dir, nIns, nReg, wild, sessions, accepted,
                   attempted, repeated, ref, shown>>

\* the runs of SpecSessions with files that may be damaged between processes
NextOpen == InsertNext \/ Select \/ Exit \/ Damage \/ Open

SpecOpen == Init /\ [][NextOpen]_vars

\* the runs whose .exit meets a write() that returns less than a page, or an
\* error, for one of the pages db_close flushes
WriteHorizon == 16      \* inserts per run
WriteResults == {-1, 0, 1, PAGE_SIZE \div 2, PAGE_SIZE - 1, PAGE_SIZE}

\* db_close when the write() of page `at` returns bytes_written
RECURSIVE flush_pages_write(_, _, _, _)
flush_pages_write(s, i, at, bytes_written) ==
    IF s.fatal \/ i = s.num_pages THEN s
    ELSE IF i \in DOMAIN s.pages
         THEN flush_pages_write(
                  pager_flush_write(s, i, IF i = at THEN bytes_written ELSE PAGE_SIZE),
                  i + 1, at, bytes_written)
         ELSE flush_pages_write(s, i + 1, at, bytes_written)

db_close_write(s, at, bytes_written) ==
    [flush_pages_write(s, 0, at, bytes_written) EXCEPT !.pages = <<>>]

InsertBrief == nIns < WriteHorizon /\ InsertNext

ExitWrite ==
    /\ status = "running"
    /\ \E at \in DOMAIN pager.pages, bytes_written \in WriteResults :
           LET s == db_close_write(pager, at, bytes_written)
           IN  /\ pager' = s
               /\ status' = IF s.fatal THEN "failed" ELSE "exited"
    /\ shown' = exec_select(pager).rows
    /\ last' = [cmd |-> "exit", key |-> 0, result |-> "none", present |-> FALSE,
                first |-> FALSE, args |-> <<>>]
    /\ out' = <<>>
    /\ UNCHANGED <<dir, nIns, nReg, wild, sessions, accepted, attempted, repeated,
                   ref>>

NextWrite == InsertBrief \/ Select \/ ExitWrite

SpecWrite == Init /\ [][NextWrite]_vars

\* the runs that fill the pager: MaxFill keys FillStep apart in ascending
\* order, then keys between them from 1 upwards; the process may end at any
\* time, by .exit, by end of input or by a failure, and the program is
\* started again on the file once the pager is nearly full
FillStep == 8
MaxFill == 392
MaxLow == 14
ReopenFrom == 398
MaxRuns == 3

\* the n-th of the keys that are not multiples of FillStep
LowKey(n) == n + ((n - 1) \div (FillStep - 1))

InsertFill ==
    /\ status = "running"
    /\ nIns < MaxFill
    /\ DoInsert(FillStep * (nIns + 1))
    /\ UNCHANGED <<nReg, wild>>

InsertLow ==
    /\ status = "running"
    /\ nIns >= MaxFill
    /\ nIns < MaxFill + MaxLow
    /\ DoInsert(LowKey(nIns - MaxFill + 1))
    /\ UNCHANGED <<nReg, wild>>

\* the program is started again on the file, however the last process ended
Reopen ==
    /\ status \in {"exited", "eof", "failed"}
    /\ sessions < MaxRuns
    /\ nIns >= ReopenFrom
    /\ pager' = db_open(pager.file)
    /\ status' = IF db_open(pager.file).fatal THEN "failed" ELSE "running"
    /\ sessions' = sessions + 1
    /\ last' = [cmd |-> "open", key |-> 0, result |-> "none", present |-> FALSE,
                first |-> TRUE, args |-> <<>>]
    /\ out' = <<>>
    /\ UNCHANGED <<dir, nIns, nReg, wild, accepted, attempted, repeated, ref, shown>>

InitFill == Init /\ dir = "asc"

NextFill == InsertFill \/ InsertLow \/ Select \/ Exit \/ Eof \/ Reopen

SpecFill == InitFill /\ [][NextFill]_vars

\* ------------------------------------------------------------------------
\* Properties
\* ------------------------------------------------------------------------
Ids(rows) == [i \in 1..Len(rows) |-> rows[i].id]
StrictlyAscending(seq) == \A i \in 1..(Len(seq) - 1) : seq[i] < seq[i + 1]
SelectDone == last.cmd = "select" /\ last.result = "EXECUTE_SUCCESS"
InsertDone == last.cmd = "insert" /\ last.result # "fatal"

\* pages 0 .. num_pages - 1 hold the same bytes in s and in t
SamePages(s, t) ==
    /\ s.num_pages = t.num_pages
    /\ \A n \in 0..(s.num_pages - 1) : Node(s, n) = Node(t, n)

\* C1: after any sequence of inserts the ids select prints are strictly
\* ascending: each id is greater than the one before it, none appears twice.
C1_SelectStrictlyAscending ==
    SelectDone => StrictlyAscending(Ids(out))

\* C2: an insert of a key that is stored in the tree prints the duplicate-key
\* error and leaves every page, num_pages and the select output as they were,
\* whether the root is a leaf or an internal node.
C2_DuplicateInsertRejected ==
    [][(last'.cmd = "insert" /\ nIns' = nIns + 1 /\ last'.present)
          => /\ last'.result = "EXECUTE_DUPLICATE_KEY"
             /\ SamePages(pager, pager')
             /\ exec_select(pager').rows = exec_select(pager).rows]_vars

\* C3: an insert of a valid key that is not stored in the tree succeeds, it is
\* never reported as a duplicate (the probe looks at no cell but the one find
\* returned), and afterwards find(k) points at a cell holding k.
C3_AbsentKeyInserted ==
    (InsertDone /\ ~last.present) =>
        /\ last.result = "EXECUTE_SUCCESS"
        /\ LET c == table_find(pager, last.key)
               node == Node(c.s, c.page_num)
           IN  /\ c.cell_num < leaf_node_num_cells(node)
               /\ leaf_node_key(node, c.cell_num) = last.key

\* C4: select prints exactly one row for every id whose insert succeeded and
\* no other row, each with the username and email of that insert.
C4_SelectYieldsAcceptedRows ==
    SelectDone =>
        /\ \A r \in accepted :
               Cardinality({i \in 1..Len(out) : out[i].id = r.id}) = 1
        /\ \A i \in 1..Len(out) : out[i] \in accepted

\* C5: round trip: the first select of a process started on the file that
\* .exit wrote prints the rows, in the same order, that a select printed just
\* before that .exit.
C5_RoundTrip ==
    (SelectDone /\ last.first /\ sessions > 1) => out = shown

\* C5: a reopened file with a tree of several pages has been read by select
C5_Witness ==
    /\ SelectDone /\ last.first /\ sessions > 1
    /\ Len(out) > LEAF_NODE_MAX_CELLS
    /\ get_node_type(Node(pager, root_page_num)) = NODE_INTERNAL

\* C6: inserts split into processes separated by .exit and a restart build
\* the tree that one process running all of them builds (ref): the same
\* pages, so the same .btree print, and the same select output; a page a
\* later process has not loaded yet reads as the page the first one held.
C6_SessionsBuildSameTree ==
    (sessions > 1 /\ status = "running") =>
        /\ SamePages(pager, ref)
        /\ exec_select(pager).rows = exec_select(ref).rows

\* C6: a later process has split a leaf while pages of the file are not loaded
C6_Witness ==
    /\ sessions > 1 /\ status = "running" /\ last.cmd = "insert"
    /\ pager.num_pages > Len(pager.file)
    /\ \E n \in 0..(pager.num_pages - 1) : n \notin DOMAIN pager.pages
    /\ get_node_type(Node(pager, root_page_num)) = NODE_INTERNAL

\* C7: the select output does not depend on the order of the inserts: when
\* the inserted keys are distinct, select prints those keys in ascending order.
C7_SelectIndependentOfOrder ==
    (SelectDone /\ ~repeated) =>
        /\ StrictlyAscending(Ids(out))
        /\ {out[i].id : i \in 1..Len(out)} = attempted

\* the subtree ordering of the internal node on page n
subtree_ordered(s, n) ==
    LET node == Node(s, n)
        num_keys == internal_node_num_keys(node)
    IN  /\ \A i \in 0..(num_keys - 2) :
               internal_node_key(node, i) < internal_node_key(node, i + 1)
        /\ \A i \in 0..(num_keys - 1) :
               \A x \in keys_under(s, internal_node_left_child(node, i)) :
                   /\ x <= internal_node_key(node, i)
                   /\ i > 0 => x > internal_node_key(node, i - 1)
        /\ \A x \in keys_under(s, internal_node_right_child(node)) :
               x > internal_node_key(node, num_keys - 1)

\* C8: after every completed insert every internal node of the tree has
\* strictly ascending keys, the keys below left child i are <= key i and
\* > key i-1, and the keys below the right child are > the last key.
C8_SubtreeOrdering ==
    InsertDone =>
        \A n \in tree_pages(pager) :
            get_node_type(Node(pager, n)) = NODE_INTERNAL => subtree_ordered(pager, n)

\* C9: after every completed insert next_leaf, followed from the leftmost
\* leaf, visits every leaf of the tree exactly once and ends at a leaf whose
\* next_leaf is 0, and every key of the page after a leaf is greater than
\* every key of that leaf.
C9_LeafChain ==
    InsertDone =>
        LET chain == leaf_chain(pager, leftmost_leaf(pager, root_page_num, MaxDepth),
                                ScanFuel)
        IN  /\ leaf_node_next_leaf(Node(pager, chain[Len(chain)])) = NO_SIBLING
            /\ \A i, j \in 1..Len(chain) : chain[i] = chain[j] => i = j
            /\ {chain[i] : i \in 1..Len(chain)} = tree_leaves(pager)
            /\ \A i \in 1..(Len(chain) - 1) :
                   \A x \in leaf_keys(Node(pager, chain[i])) :
                       \A y \in leaf_keys(Node(pager, chain[i + 1])) : x < y

\* C10: after every completed insert every node of the tree but the root
\* stores a parent_page_num that names an internal node with the node's page
\* number among its child pointers.
C10_ParentPointers ==
    InsertDone =>
        \A n \in tree_pages(pager) \ {root_page_num} :
            LET parent == Node(pager, node_parent(Node(pager, n)))
            IN  /\ get_node_type(parent) = NODE_INTERNAL
                /\ n \in child_pointers(parent)

\* the depths of the leaves below page n, the root being at depth 0; an
\* internal node MaxDepth levels down counts as a leaf at depth -1
RECURSIVE leaf_depths(_, _, _)
leaf_depths(s, n, depth) ==
    LET node == Node(s, n)
    IN  IF get_node_type(node) = NODE_LEAF THEN {MaxDepth - depth}
        ELSE IF depth = 0 THEN {-1}
        ELSE UNION {leaf_depths(s, c, depth - 1) : c \in child_pointers(node)}

\* C11: after every completed insert the tree is height balanced: every leaf
\* reachable from the root is at the same depth.
C11_HeightBalanced ==
    InsertDone => Cardinality(leaf_depths(pager, root_page_num, MaxDepth)) = 1

C13_PageBound ==
    /\ pager.num_pages <= TABLE_MAX_PAGES
    /\ \A n \in DOMAIN pager.pages : n < TABLE_MAX_PAGES

\* C14: the file is written only by db_close on .exit: no other step changes
\* it, and when a process ended by end of input or by a failure the next
\* process finds the rows a select printed just before the last .exit (none
\* if there was no .exit): the inserts of the lost process are not visible.
C14_FileWrittenOnlyByExit ==
    [][/\ last'.cmd # "exit" => pager'.file = pager.file
       /\ (last'.cmd = "open" /\ status \in {"eof", "failed"})
              => exec_select(pager').rows = shown]_vars

\* C14: a process started on the file a .exit wrote, after a later process
\* ended without .exit, has read the file: rows that were inserted are missing
C14_Witness ==
    /\ SelectDone /\ last.first /\ sessions > 2
    /\ out = shown
    /\ Len(out) > 0 /\ Len(out) < Cardinality(accepted)

TypedNegative(t) == t.neg /\ (t.hi # 0 \/ t.lo # 0)
\* the last command is an insert with exactly three drawn arguments
TypedInsert == last.cmd = "insert" /\ Len(last.args) = 3
\* the last insert passed prepare_insert
Prepared == last.result \in {"EXECUTE_SUCCESS", "EXECUTE_DUPLICATE_KEY"}

\* C16: an insert with three arguments is accepted exactly when id >= 0,
\* username has at most 32 characters and email at most 255; lengths 32 and
\* 255 are stored in full, a longer string is refused as too long and a
\* negative id as negative.
C16_InsertValidation ==
    TypedInsert =>
        LET id == last.args[1]
            username == last.args[2]
            email == last.args[3]
            rows == exec_select(pager).rows
        IN  /\ Prepared <=> /\ ~TypedNegative(id)
                            /\ username.len <= COLUMN_USERNAME_SIZE
                            /\ email.len <= COLUMN_EMAIL_SIZE
            /\ (/\ ~TypedNegative(id)
                /\ \/ username.len > COLUMN_USERNAME_SIZE
                   \/ email.len > COLUMN_EMAIL_SIZE)
                   => last.result = "PREPARE_STRING_TOO_LONG"
            /\ TypedNegative(id) => last.result = "PREPARE_NEGATIVE_ID"
            /\ last.result = "EXECUTE_SUCCESS" =>
                   \E i \in 1..Len(rows) :
                       /\ rows[i].id = last.key
                       /\ rows[i].username = username
                       /\ rows[i].email = email

\* the results printed for a command that is refused as a user input error
Rejections ==
    {"PREPARE_SYNTAX_ERROR", "PREPARE_NEGATIVE_ID", "PREPARE_STRING_TOO_LONG",
     "PREPARE_UNRECOGNIZED_STATEMENT", "META_CMD_UNRECOGNIZED_CMD",
     "EXECUTE_DUPLICATE_KEY"}

\* C17: a command refused as a user input error (syntax error, negative id,
\* string too long, duplicate key, unrecognized statement or meta command)
\* leaves every page, num_pages, the file and the select output as they
\* were, and the process stays in its prompt loop.
C17_RejectedLeavesState ==
    [][last'.result \in Rejections
          => /\ SamePages(pager, pager')
             /\ pager'.file = pager.file
             /\ exec_select(pager').rows = exec_select(pager).rows
             /\ accepted' = accepted
             /\ status' = "running"]_vars

\* C17: an insert has been refused as a duplicate in a table that holds rows
C17_Witness ==
    /\ last.result = "EXECUTE_DUPLICATE_KEY"
    /\ TypedInsert
    /\ status = "running"
    /\ Cardinality(accepted) > 1

\* the root is a leaf that holds LEAF_NODE_MAX_CELLS keys
LeafRootFull(s) ==
    LET root == Node(s, root_page_num)
    IN  /\ get_node_type(root) = NODE_LEAF
        /\ leaf_node_num_cells(root) = LEAF_NODE_MAX_CELLS

\* the n smallest members of a set of integers
Smallest(S, n) == {k \in S : Cardinality({j \in S : j < k}) < n}

\* the keys of a leaf are in strictly ascending order of their cells
leaf_sorted(node) ==
    \A i \in 1..(leaf_node_num_cells(node) - 1) :
        leaf_node_key(node, i - 1) < leaf_node_key(node, i)

\* C18: an accepted insert into a leaf root that holds 13 keys leaves an
\* internal root on page 0 with exactly one key, the largest key of the left
\* leaf; the left leaf holds the 7 smallest of the 14 keys and the right leaf
\* the 7 largest, wherever the new key falls among the old ones.
C18_LeafRootSplit ==
    [][(/\ LeafRootFull(pager)
        /\ last'.cmd = "insert"
        /\ last'.result = "EXECUTE_SUCCESS")
          => LET keys == leaf_keys(Node(pager, root_page_num)) \cup {last'.key}
                 root == Node(pager', root_page_num)
                 left == Node(pager', internal_node_left_child(root, 0))
                 right == Node(pager', internal_node_right_child(root))
             IN  /\ Cardinality(keys) = LEAF_NODE_MAX_CELLS + 1
                 /\ get_node_type(root) = NODE_INTERNAL
                 /\ internal_node_num_keys(root) = 1
                 /\ get_node_type(left) = NODE_LEAF
                 /\ get_node_type(right) = NODE_LEAF
                 /\ leaf_node_num_cells(left) = 7
                 /\ leaf_node_num_cells(right) = 7
                 /\ leaf_keys(left) = Smallest(keys, 7)
                 /\ leaf_keys(right) = keys \ Smallest(keys, 7)
                 /\ leaf_sorted(left) /\ leaf_sorted(right)
                 /\ \A k \in leaf_keys(left) : k <= internal_node_key(root, 0)
                 /\ internal_node_key(root, 0) \in leaf_keys(left)]_vars

\* C18: the 14th key has just split the leaf root, and it fell strictly
\* between two keys of the left leaf
C18_Witness ==
    LET root == Node(pager, root_page_num)
        left == Node(pager, internal_node_left_child(root, 0))
    IN  /\ last.cmd = "insert" /\ last.result = "EXECUTE_SUCCESS"
        /\ nIns = LEAF_NODE_MAX_CELLS + 1
        /\ get_node_type(root) = NODE_INTERNAL
        /\ internal_node_num_keys(root) = 1
        /\ last.key \in leaf_keys(left)
        /\ \E a, b \in leaf_keys(left) : a < last.key /\ last.key < b

\* C19: in every reachable state root_page_num is 0, the node on page 0 has
\* is_root set and no node on any other page has it, also after a leaf-root
\* split and after an internal-root split.
C19_SingleRoot ==
    /\ root_page_num = 0
    /\ \A n \in 0..(pager.num_pages - 1) :
           is_node_root(Node(pager, n)) <=> n = root_page_num
    /\ \A n \in DOMAIN pager.pages :
           is_node_root(pager.pages[n]) <=> n = root_page_num

\* C19: the internal root has been split: the root's left child is an
\* internal node that was the root's copy
C19_Witness ==
    LET root == Node(pager, root_page_num)
        left == Node(pager, internal_node_left_child(root, 0))
    IN  /\ last.cmd = "insert" /\ last.result = "EXECUTE_SUCCESS"
        /\ get_node_type(root) = NODE_INTERNAL
        /\ get_node_type(left) = NODE_INTERNAL
        /\ internal_node_num_keys(left) > 0
        /\ ~is_node_root(left)

\* the id typed is a u32: 0 <= d <= 2^32 - 1
TypedU32(t) == ~TypedNegative(t) /\ t.hi < 65536

\* C20: every id d with 0 <= d <= 2^32 - 1 given to insert is accepted and
\* stored as the key d (the u32 d, which the model keeps as the int of the
\* same 32 bits); an id is refused as negative only when d < 0.
C20_U32IdsAccepted ==
    (/\ TypedInsert
     /\ last.args[2].len <= COLUMN_USERNAME_SIZE
     /\ last.args[3].len <= COLUMN_EMAIL_SIZE)
        => LET d == last.args[1]
           IN  /\ TypedU32(d) => /\ Prepared
                                 /\ last.key = wrap_int(d)
               /\ last.result = "PREPARE_NEGATIVE_ID" => TypedNegative(d)

\* the smallest member of a nonempty set of integers
SetMin(S) == CHOOSE x \in S : \A y \in S : x <= y
\* the largest member of a nonempty set of integers
SetMax(S) == CHOOSE x \in S : \A y \in S : x >= y

\* the smallest index i with key <= internal_key(i), num_keys when none
child_rule(node, key) ==
    LET S == {i \in 0..(internal_node_num_keys(node) - 1) :
                 key <= internal_node_key(node, i)}
    IN  IF S = {} THEN internal_node_num_keys(node) ELSE SetMin(S)

\* the smallest cell index i with leaf_key(i) >= key, num_cells when none
cell_rule(node, key) ==
    LET S == {i \in 0..(leaf_node_num_cells(node) - 1) :
                 leaf_node_key(node, i) >= key}
    IN  IF S = {} THEN leaf_node_num_cells(node) ELSE SetMin(S)

\* the descent by these two rules from page n
RECURSIVE find_rule(_, _, _, _)
find_rule(s, n, key, depth) ==
    LET node == Node(s, n)
    IN  IF depth = 0 \/ get_node_type(node) = NODE_LEAF
        THEN [page_num |-> n, cell_num |-> cell_rule(node, key)]
        ELSE find_rule(s, internal_node_left_child(node, child_rule(node, key)),
                       key, depth - 1)

\* the cursor [page_num, cell_num] is where key belongs in the order select
\* follows: smaller keys before it, larger keys at and after it
insertion_position(s, c, key) ==
    LET chain == leaf_chain(s, leftmost_leaf(s, root_page_num, MaxDepth), ScanFuel)
        leaf == Node(s, c.page_num)
    IN  /\ \A i \in 0..(leaf_node_num_cells(leaf) - 1) :
               IF i < c.cell_num THEN leaf_node_key(leaf, i) < key
               ELSE leaf_node_key(leaf, i) > key
        /\ \E j \in 1..Len(chain) :
               /\ chain[j] = c.page_num
               /\ \A i \in 1..Len(chain) :
                      \A x \in leaf_keys(Node(s, chain[i])) :
                          /\ i < j => x < key
                          /\ i > j => x > key

\* the keys find is asked for
ProbeKeys == 0..(MaxKey + 1)

\* C21: find(key) descends from the root choosing at each internal node the
\* smallest index i with key <= internal_key(i) (the right child when there
\* is none) and returns, in the leaf it reaches, the smallest cell index i
\* with leaf_key(i) >= key (num_cells when there is none); a stored key is
\* found at the cell that holds it, an absent key at its insertion position.
C21_Find ==
    (status = "running" /\ last.cmd = "insert") =>
        \A key \in ProbeKeys :
            LET c == table_find(pager, key)
                r == find_rule(pager, root_page_num, key, MaxDepth)
                leaf == Node(pager, c.page_num)
            IN  /\ ~c.s.fatal
                /\ c.page_num = r.page_num
                /\ c.cell_num = r.cell_num
                /\ IF key \in stored_keys(pager)
                   THEN /\ c.cell_num < leaf_node_num_cells(leaf)
                        /\ leaf_node_key(leaf, c.cell_num) = key
                   ELSE insertion_position(pager, c, key)

\* the step is an accepted insert
InsertStep == last'.cmd = "insert" /\ last'.result = "EXECUTE_SUCCESS"

\* the leaf find reaches for key in s has room for one more cell
LeafHasRoom(s, key) ==
    LET c == table_find(s, key)
    IN  /\ ~c.s.fatal
        /\ get_node_type(Node(s, c.page_num)) = NODE_LEAF
        /\ leaf_node_num_cells(Node(s, c.page_num)) < LEAF_NODE_MAX_CELLS

\* what leaf_insert of row at the cursor of its key does between s and t
leaf_insert_effect(s, t, row) ==
    LET c == table_find(s, row.id)
        old == Node(s, c.page_num)
        new == Node(t, c.page_num)
        num_cells == leaf_node_num_cells(old)
    IN  /\ leaf_node_num_cells(new) = num_cells + 1
        /\ leaf_sorted(new)
        /\ leaf_node_key(new, c.cell_num) = row.id
        /\ leaf_node_value(new, c.cell_num) = serialize_row(row)
        /\ \A i \in 0..(num_cells - 1) :
               LET j == IF i < c.cell_num THEN i ELSE i + 1
               IN  /\ leaf_node_key(new, j) = leaf_node_key(old, i)
                   /\ leaf_node_value(new, j) = leaf_node_value(old, i)
        /\ leaf_node_next_leaf(new) = leaf_node_next_leaf(old)
        /\ node_parent(new) = node_parent(old)
        /\ get_node_type(new) = NODE_LEAF
        /\ is_node_root(new) = is_node_root(old)
        /\ t.num_pages = s.num_pages
        /\ \A n \in 0..(s.num_pages - 1) :
               n # c.page_num => Node(t, n) = Node(s, n)

\* C22: leaf_insert into a leaf with fewer than 13 cells, at the cursor
\* position, increases that leaf's num_cells by exactly one, keeps the
\* leaf's keys strictly ascending, keeps every previous cell's key and row,
\* and changes no other page, no next_leaf or parent pointer and not
\* num_pages.
C22_LeafInsertFrame ==
    [][(InsertStep /\ LeafHasRoom(pager, last'.key))
          => \E row \in accepted' :
                 /\ row.id = last'.key
                 /\ row \notin accepted
                 /\ leaf_insert_effect(pager, pager', row)]_vars

\* the leaf find reaches for key in s is full
LeafFull(s, key) ==
    LET c == table_find(s, key)
    IN  /\ ~c.s.fatal
        /\ get_node_type(Node(s, c.page_num)) = NODE_LEAF
        /\ leaf_node_num_cells(Node(s, c.page_num)) = LEAF_NODE_MAX_CELLS

\* logical cell i of the split of leaf old: the old cells with the new one at
\* cell_num
logical_cell(old, cell_num, row, i) ==
    IF i < cell_num
    THEN [key |-> leaf_node_key(old, i), value |-> leaf_node_value(old, i)]
    ELSE IF i = cell_num
    THEN [key |-> row.id, value |-> serialize_row(row)]
    ELSE [key |-> leaf_node_key(old, i - 1), value |-> leaf_node_value(old, i - 1)]

\* what the leaf split of the insert of row does to the leaf find reaches in s
leaf_split_effect(s, row) ==
    LET c == table_find(s, row.id)
        old == Node(s, c.page_num)
        r == leaf_node_split(c.s, c, row.id, row)
        left == Node(r.s, c.page_num)
        right == Node(r.s, r.new_page_num)
    IN  /\ r.new_page_num # c.page_num
        /\ \A i \in 0..(LEAF_NODE_MAX_CELLS - 1) :
               logical_cell(old, c.cell_num, row, i).key
                   <= logical_cell(old, c.cell_num, row, i + 1).key
        /\ get_node_type(left) = NODE_LEAF /\ get_node_type(right) = NODE_LEAF
        /\ leaf_node_num_cells(left) = 7
        /\ leaf_node_num_cells(right) = 7
        /\ \A i \in 0..6 :
               /\ leaf_node_key(left, i) = logical_cell(old, c.cell_num, row, i).key
               /\ leaf_node_value(left, i) = logical_cell(old, c.cell_num, row, i).value
               /\ leaf_node_key(right, i) = logical_cell(old, c.cell_num, row, i + 7).key
               /\ leaf_node_value(right, i)
                      = logical_cell(old, c.cell_num, row, i + 7).value
        /\ leaf_node_next_leaf(right) = leaf_node_next_leaf(old)
        /\ leaf_node_next_leaf(left) = r.new_page_num
        /\ node_parent(right) = node_parent(old)
        /\ node_parent(left) = node_parent(old)

\* the new leaf of that split holds the same cells in t, the state after the
\* whole insert
leaf_split_kept(s, t, row) ==
    LET c == table_find(s, row.id)
        r == leaf_node_split(c.s, c, row.id, row)
        right == Node(r.s, r.new_page_num)
        after == Node(t, r.new_page_num)
    IN  /\ get_node_type(after) = NODE_LEAF
        /\ leaf_node_num_cells(after) = leaf_node_num_cells(right)
        /\ \A i \in 0..(leaf_node_num_cells(right) - 1) :
               /\ leaf_node_key(after, i) = leaf_node_key(right, i)
               /\ leaf_node_value(after, i) = leaf_node_value(right, i)
        /\ leaf_node_next_leaf(after) = leaf_node_next_leaf(right)

\* C23: a leaf split takes the 14 logical cells (the 13 old cells plus the
\* new one at cursor.cell_num) in ascending key order, leaves the first 7 in
\* the old leaf and puts the last 7 in the new leaf with keys and rows
\* intact, sets new.next_leaf to the old leaf's previous next_leaf,
\* old.next_leaf to the new page number, and new.parent to old.parent.
C23_LeafSplit ==
    [][(InsertStep /\ LeafFull(pager, last'.key))
          => \E row \in accepted' :
                 /\ row.id = last'.key
                 /\ row \notin accepted
                 /\ leaf_split_effect(pager, row)
                 /\ leaf_split_kept(pager, pager', row)]_vars

\* C23: a leaf that is not the root and has a next leaf has just been split
\* by a key that fell among its cells: the two halves are siblings under the
\* same parent and the chain goes through the new leaf
C23_Witness ==
    /\ last.cmd = "insert" /\ last.result = "EXECUTE_SUCCESS"
    /\ \E n \in tree_leaves(pager) :
           LET left == Node(pager, n)
               right == Node(pager, leaf_node_next_leaf(left))
           IN  /\ n # 0
               /\ leaf_node_next_leaf(left) = pager.num_pages - 1
               /\ leaf_node_num_cells(left) = 7
               /\ leaf_node_num_cells(right) = 7
               /\ leaf_node_next_leaf(right) # NO_SIBLING
               /\ last.key \in leaf_keys(left)
               /\ last.key < SetMax(leaf_keys(left))
               /\ get_node_type(Node(pager, root_page_num)) = NODE_INTERNAL
               /\ internal_node_num_keys(Node(pager, root_page_num)) > 1

\* every key of the internal node on page n is the largest key stored below
\* the left child it belongs to
separators_exact(s, n) ==
    LET node == Node(s, n)
    IN  \A i \in 0..(internal_node_num_keys(node) - 1) :
            LET below == keys_under(s, internal_node_left_child(node, i))
            IN  /\ below # {}
                /\ internal_node_key(node, i) = SetMax(below)

\* C24: after every completed insert every separator key i of every internal
\* node equals the largest key stored in the subtree of that node's left
\* child i, also after a leaf split below a non-root parent and after
\* internal splits.
C24_SeparatorsExact ==
    InsertDone =>
        \A n \in tree_pages(pager) :
            get_node_type(Node(pager, n)) = NODE_INTERNAL
                => separators_exact(pager, n)

\* the calls create_new_root(call.s, call.right) that
\* internal_node_insert(s, parent_page_num, child_page_num) makes
RECURSIVE root_calls_insert(_, _, _, _)
root_calls_insert(s, parent_page_num, child_page_num, depth) ==
    LET parent == Node(s, parent_page_num)
    IN  IF \/ depth = 0
           \/ s.fatal
           \/ internal_node_num_keys(parent) < INTERNAL_NODE_MAX_KEYS
        THEN {}
        ELSE IF is_node_root(parent)
        THEN {[s |-> s, right |-> get_unused_page_num(s)]}
        ELSE LET f == internal_node_split(s, parent_page_num, child_page_num)
             IN  root_calls_insert(f.s, node_parent(Node(f.s, f.old_page_num)),
                                   f.new_page_num, depth - 1)

\* the calls of create_new_root that the insert of row makes in s
root_calls(s, row) ==
    LET c == table_find(s, row.id)
    IN  IF ~LeafFull(s, row.id) THEN {}
        ELSE LET f == leaf_node_split(c.s, c, row.id, row)
                 pp == node_parent(Node(f.s, c.page_num))
             IN  IF is_node_root(Node(f.s, c.page_num))
                 THEN {[s |-> f.s, right |-> f.new_page_num]}
                 ELSE root_calls_insert(
                          update_parent_key(f.s, c.page_num, pp, f.old_max),
                          pp, f.new_page_num, MaxDepth)

\* what create_new_root(s, right) leaves
new_root_effect(s, right) ==
    LET t == create_new_root(s, right)
        old_root == Node(s, root_page_num)
        root == Node(t, root_page_num)
        left_page_num == internal_node_left_child(root, 0)
        left == Node(t, left_page_num)
    IN  /\ ~t.fatal
        /\ get_node_type(root) = NODE_INTERNAL
        /\ is_node_root(root)
        /\ internal_node_num_keys(root) = 1
        /\ left_page_num \notin DOMAIN s.pages \cup {right, root_page_num}
        /\ left_page_num >= s.num_pages
        /\ left = [old_root EXCEPT !.is_root = 0, !.parent = root_page_num]
        /\ internal_node_key(root, 0) = SetMax(keys_under(t, left_page_num))
        /\ internal_node_right_child(root) = right
        /\ node_parent(left) = root_page_num
        /\ node_parent(Node(t, right)) = root_page_num
        /\ get_node_type(left) = NODE_INTERNAL =>
               \A ch \in child_pointers(left) :
                   node_parent(Node(t, ch)) = left_page_num

\* the root of t, the state after the whole insert, has the children that
\* create_new_root(s, right) gave it
new_root_kept(s, right, t) ==
    LET made == Node(create_new_root(s, right), root_page_num)
        root == Node(t, root_page_num)
    IN  /\ get_node_type(root) = NODE_INTERNAL
        /\ is_node_root(root)
        /\ internal_node_num_keys(root) = 1
        /\ internal_node_left_child(root, 0) = internal_node_left_child(made, 0)
        /\ internal_node_right_child(root) = right

\* C25: create_new_root(right) leaves page 0 an internal root with is_root
\* set and one key, whose left child is a newly allocated page holding a
\* copy of the old root with is_root cleared, whose key 0 is the largest key
\* below that left child and whose right child is right; both children have
\* parent 0, and when the copied node is internal each of its children has
\* the left child's page number as parent.
C25_CreateNewRoot ==
    [][InsertStep
          => \E row \in accepted' :
                 /\ row.id = last'.key
                 /\ row \notin accepted
                 /\ \A call \in root_calls(pager, row) :
                        /\ new_root_effect(call.s, call.right)
                        /\ new_root_kept(call.s, call.right, pager')]_vars

\* C25: the internal root has just been split by create_new_root: its left
\* child is the newest page, an internal node whose children name it as parent
C25_Witness ==
    LET root == Node(pager, root_page_num)
        left_page_num == internal_node_left_child(root, 0)
        left == Node(pager, left_page_num)
    IN  /\ last.cmd = "insert" /\ last.result = "EXECUTE_SUCCESS"
        /\ get_node_type(root) = NODE_INTERNAL
        /\ internal_node_num_keys(root) = 1
        /\ left_page_num = pager.num_pages - 1
        /\ get_node_type(left) = NODE_INTERNAL
        /\ \A ch \in child_pointers(left) :
               node_parent(Node(pager, ch)) = left_page_num

\* the calls internal_node_split_and_insert(call.s, call.parent, call.child)
\* that internal_node_insert(s, parent_page_num, child_page_num) makes, one
\* per level of the tree
RECURSIVE split_calls_insert(_, _, _, _)
split_calls_insert(s, parent_page_num, child_page_num, depth) ==
    LET parent == Node(s, parent_page_num)
    IN  IF \/ depth = 0
           \/ s.fatal
           \/ internal_node_num_keys(parent) < INTERNAL_NODE_MAX_KEYS
        THEN {}
        ELSE {[s |-> s, parent |-> parent_page_num, child |-> child_page_num]}
             \cup IF is_node_root(parent) THEN {}
                  ELSE LET f == internal_node_split(s, parent_page_num,
                                                    child_page_num)
                       IN  split_calls_insert(
                               f.s, node_parent(Node(f.s, f.old_page_num)),
                               f.new_page_num, depth - 1)

\* the calls of internal_node_split_and_insert that the insert of row makes in s
split_calls(s, row) ==
    LET c == table_find(s, row.id)
    IN  IF ~LeafFull(s, row.id) THEN {}
        ELSE LET f == leaf_node_split(c.s, c, row.id, row)
                 pp == node_parent(Node(f.s, c.page_num))
             IN  IF is_node_root(Node(f.s, c.page_num)) THEN {}
                 ELSE split_calls_insert(
                          update_parent_key(f.s, c.page_num, pp, f.old_max),
                          pp, f.new_page_num, MaxDepth)

\* the page of the old node once the call has returned in t: the root's
\* content moves to the new root's left child
old_page_after(call, t) ==
    IF is_node_root(Node(call.s, call.parent))
    THEN internal_node_left_child(Node(t, root_page_num), 0)
    ELSE call.parent
\* the page of the new sibling
new_page_of(call) == get_unused_page_num(call.s)

\* every child of the internal node on page n names n as its parent
children_name_parent(s, n) ==
    \A ch \in child_pointers(Node(s, n)) : node_parent(Node(s, ch)) = n

\* the subtree ordering of C26: keys in a left child <= its separator < the
\* keys of everything to its right
ordered_node(s, n) ==
    LET node == Node(s, n)
        num_keys == internal_node_num_keys(node)
    IN  \A i \in 0..(num_keys - 1) :
            /\ \A x \in keys_under(s, internal_node_left_child(node, i)) :
                   x <= internal_node_key(node, i)
            /\ \A j \in (i + 1)..num_keys :
                   \A x \in keys_under(s, internal_node_left_child(node, j)) :
                       x > internal_node_key(node, i)

\* what C26 states of one call
split_children_effect(call) ==
    LET t == internal_node_split_and_insert(call.s, call.parent, call.child)
        old_page_num == old_page_after(call, t)
        new_page_num == new_page_of(call)
    IN  /\ ~t.fatal
        /\ get_node_type(Node(t, old_page_num)) = NODE_INTERNAL
        /\ get_node_type(Node(t, new_page_num)) = NODE_INTERNAL
        /\ children_name_parent(t, old_page_num)
        /\ children_name_parent(t, new_page_num)
        /\ ordered_node(t, old_page_num)
        /\ ordered_node(t, new_page_num)

\* C26: after internal_split_and_insert returns, every child held by the old
\* node and every child held by the new sibling (the moved children and the
\* incoming child) stores as parent_page_num the page of the node that holds
\* it, and both nodes satisfy the subtree ordering (keys in a left child <=
\* its separator < keys of everything to its right).
C26_InternalSplitChildren ==
    [][InsertStep
          => \E row \in accepted' :
                 /\ row.id = last'.key
                 /\ row \notin accepted
                 /\ \A call \in split_calls(pager, row) :
                        split_children_effect(call)]_vars

\* the number of child pointers in the tree of s that hold page n
holders(s, n) ==
    LET inner == {p \in tree_pages(s) : get_node_type(Node(s, p)) = NODE_INTERNAL}
        slots == {<<p, i>> \in inner \X (0..INTERNAL_NODE_MAX_KEYS) :
                     /\ i <= internal_node_num_keys(Node(s, p))
                     /\ internal_node_left_child(Node(s, p), i) = n}
    IN  Cardinality(slots)

\* what C27 states of one call
split_adds_one(call) ==
    LET t == internal_node_split_and_insert(call.s, call.parent, call.child)
        old_page_num == old_page_after(call, t)
        new_page_num == new_page_of(call)
        before == child_pointers(Node(call.s, call.parent))
        old == Node(t, old_page_num)
        new == Node(t, new_page_num)
    IN  /\ Cardinality(before) = INTERNAL_NODE_MAX_KEYS + 1
        /\ call.child \notin before
        /\ child_pointers(old) \cup child_pointers(new) = before \cup {call.child}
        /\ child_pointers(old) \cap child_pointers(new) = {}
        /\ internal_node_num_keys(old) + internal_node_num_keys(new) + 2
               = INTERNAL_NODE_MAX_KEYS + 2
        /\ Cardinality(child_pointers(old)) = internal_node_num_keys(old) + 1
        /\ Cardinality(child_pointers(new)) = internal_node_num_keys(new) + 1
        /\ holders(t, new_page_num) = 1
        /\ holders(t, old_page_num) = 1

max_exact(s, n) ==
    LET m == get_node_max_key(s, n)
    IN  /\ ~m.s.fatal /\ ~m.s.ub
        /\ keys_under(s, n) # {}
        /\ m.key = SetMax(keys_under(s, n))

\* the nodes [s, page] on which the insert of row in s evaluates
\* get_node_max_key: the full leaf before and after its split, the new leaf
\* handed to internal_node_insert, the parent's right child, and the old
\* node, the incoming child and the two halves of every internal split
max_calls(s, row) ==
    LET c == table_find(s, row.id)
        f == leaf_node_split(c.s, c, row.id, row)
        pp == node_parent(Node(f.s, c.page_num))
        s1 == update_parent_key(f.s, c.page_num, pp, f.old_max)
    IN  IF ~LeafFull(s, row.id) THEN {}
        ELSE {[s |-> c.s, page |-> c.page_num], [s |-> f.s, page |-> c.page_num],
              [s |-> f.s, page |-> f.new_page_num]}
             \cup IF is_node_root(Node(f.s, c.page_num)) THEN {}
                  ELSE {[s |-> s1, page |-> f.new_page_num],
                        [s |-> s1, page |-> internal_node_right_child(Node(s1, pp))]}
                       \cup UNION {
                           LET t == internal_node_split_and_insert(
                                        call.s, call.parent, call.child)
                           IN  {[s |-> call.s, page |-> call.parent],
                                [s |-> call.s, page |-> call.child],
                                [s |-> t, page |-> old_page_after(call, t)],
                                [s |-> t, page |-> new_page_of(call)]} :
                           call \in split_calls(s, row)}

\* C28: whenever node_max_key is evaluated on a node of the tree it returns
\* the largest key stored in any leaf of that node's subtree: the last
\* cell's key for a leaf, and for an internal node the result of following
\* right-child pointers down to a leaf.
C28_NodeMaxKey ==
    [][InsertStep
          => /\ \A n \in tree_pages(pager') : max_exact(pager', n)
             /\ \E row \in accepted' :
                    /\ row.id = last'.key
                    /\ row \notin accepted
                    /\ \A e \in max_calls(pager, row) : max_exact(e.s, e.page)]_vars

\* the page numbers a node occupies in s: the populated slots and the pages
\* of the file
occupied(s) == DOMAIN s.pages \cup 0..(Len(s.file) - 1)

\* the page number get_unused_page_num hands out in s is occupied by no node
fresh(s) == get_unused_page_num(s) \notin occupied(s)

\* the states in which the insert of row in s calls get_unused_page_num: in
\* leaf_node_split_and_insert, in create_new_root (after the right child has
\* been fetched) and in internal_node_split_and_insert
allocations(s, row) ==
    IF ~LeafFull(s, row.id) THEN {}
    ELSE {table_find(s, row.id).s}
         \cup {get_page(get_page(call.s, root_page_num), call.right) :
                  call \in root_calls(s, row)}
         \cup {call.s : call \in split_calls(s, row)}

\* every page but the root is held by exactly one child pointer of the tree,
\* the root by none
each_page_held_once(s) ==
    /\ holders(s, root_page_num) = 0
    /\ \A n \in 1..(s.num_pages - 1) : holders(s, n) = 1

\* C29: page allocation is monotonic and fresh: num_pages never decreases,
\* every page number obtained from get_unused_page_num is one no node
\* occupies at that moment, and after every completed insert every page
\* 1..num_pages-1 is referenced by exactly one child pointer of exactly one
\* internal node reachable from the root.
C29_PageAllocation ==
    [][/\ pager'.num_pages >= pager.num_pages
       /\ InsertStep
             => /\ each_page_held_once(pager')
                /\ \E row \in accepted' :
                       /\ row.id = last'.key
                       /\ row \notin accepted
                       /\ \A s \in allocations(pager, row) : fresh(s)]_vars

\* C29: a second process has allocated pages beyond those of the file it
\* opened, and every page but the root is held by exactly one child pointer
C29_Witness ==
    /\ last.cmd = "insert" /\ last.result = "EXECUTE_SUCCESS"
    /\ sessions = 2
    /\ Len(pager.file) > 2
    /\ pager.num_pages > Len(pager.file) + 1
    /\ each_page_held_once(pager)

\* get_page(s, page_num) on a page already in pager->pages changes nothing,
\* on another page it installs the page of the file, or zeroes when the file
\* has no such page, and leaves the other buffers and the file alone; it
\* raises num_pages when page_num is at or beyond it; a node written through
\* the buffer is what a later get_page of that page finds
get_page_effect(s, page_num) ==
    LET t == get_page(s, page_num)
    IN  /\ ~t.fatal
        /\ t.file = s.file
        /\ t.file_len = s.file_len
        /\ IF page_num \in DOMAIN s.pages
           THEN t.pages = s.pages
           ELSE /\ DOMAIN t.pages = DOMAIN s.pages \cup {page_num}
                /\ \A m \in DOMAIN s.pages : t.pages[m] = s.pages[m]
                /\ t.pages[page_num] = IF page_num < Len(s.file)
                                       THEN s.file[page_num + 1]
                                       ELSE ZeroPage
        /\ t.num_pages = IF page_num >= s.num_pages
                         THEN page_num + 1
                         ELSE s.num_pages
        /\ \A m \in DOMAIN s.pages :
               LET w == put(t, page_num, s.pages[m])
               IN  /\ get_page(w, page_num) = w
                   /\ Node(get_page(w, page_num), page_num) = s.pages[m]

\* C30: get_page of an in-range page returns the buffer already populated
\* without touching the disk, so a mutation made through a page is seen by
\* every later get of that page in the session; on a miss it installs a
\* buffer equal to the on-disk page when the page exists on disk and all-zero
\* otherwise, and it raises num_pages to page_num + 1 when page_num >=
\* num_pages. Checked on every page below TABLE_MAX_PAGES and up to
\* num_pages in every state of a running process, and at every allocation
\* inside an insert.
C30_GetPage ==
    [][status' = "running"
          => /\ \A n \in 0..pager'.num_pages :
                    n < TABLE_MAX_PAGES => get_page_effect(pager', n)
             /\ InsertStep
                    => \E row \in accepted' :
                           /\ row.id = last'.key
                           /\ row \notin accepted
                           /\ \A s \in allocations(pager, row) :
                                  get_unused_page_num(s) < TABLE_MAX_PAGES
                                      => get_page_effect(s, get_unused_page_num(s))]_vars

\* C30: a second process has read some pages of the file, has changed one of
\* them, and has not yet read another
C30_Witness ==
    /\ status = "running"
    /\ sessions = 2
    /\ \E n \in DOMAIN pager.pages :
           n < Len(pager.file) /\ pager.pages[n] # pager.file[n + 1]
    /\ \E n \in 1..(Len(pager.file) - 1) :
           /\ n \notin DOMAIN pager.pages
           /\ pager.file[n + 1] # ZeroPage
    /\ pager.num_pages > Len(pager.file)

\* the cursor positions of a scan of s: every cell of every leaf that
\* next_leaf reaches from the leaf table_start returns
scan_positions(s) ==
    LET chain == leaf_chain(s, table_start(s).page_num, ScanFuel)
    IN  {[page_num |-> chain[j], cell_num |-> i] :
            j \in 1..Len(chain),
            i \in 0..(LEAF_NODE_MAX_CELLS - 1)} \cap
        {p \in [page_num : 0..(s.num_pages - 1),
                cell_num : 0..(LEAF_NODE_MAX_CELLS - 1)] :
            p.cell_num < leaf_node_num_cells(Node(s, p.page_num))}

\* table_start(s) is on the cell with the smallest key, at the end of the
\* table exactly when the table is empty
table_start_effect(s) ==
    LET c == table_start(s)
    IN  /\ ~c.s.fatal /\ ~c.s.ub
        /\ c.end_of_table = (stored_keys(s) = {})
        /\ ~c.end_of_table
               => /\ [page_num |-> c.page_num, cell_num |-> c.cell_num]
                         \in scan_positions(s)
                  /\ leaf_node_key(Node(s, c.page_num), c.cell_num)
                         = SetMin(stored_keys(s))

\* cursor_advance from the cell p of s: the next cell of the leaf, or cell 0
\* of next_leaf when p is the last cell, or the end of the table when there
\* is no next leaf; a cursor not at the end is on a cell of its leaf
cursor_advance_effect(s, p) ==
    LET c == [s |-> s, page_num |-> p.page_num, cell_num |-> p.cell_num,
              end_of_table |-> FALSE]
        d == cursor_advance(c)
        node == Node(s, p.page_num)
    IN  /\ ~d.s.fatal /\ ~d.s.ub
        /\ IF p.cell_num + 1 < leaf_node_num_cells(node)
           THEN /\ ~d.end_of_table
                /\ d.page_num = p.page_num
                /\ d.cell_num = p.cell_num + 1
           ELSE IF leaf_node_next_leaf(node) = 0
           THEN d.end_of_table
           ELSE /\ ~d.end_of_table
                /\ d.page_num = leaf_node_next_leaf(node)
                /\ d.cell_num = 0
        /\ ~d.end_of_table
               => [page_num |-> d.page_num, cell_num |-> d.cell_num]
                      \in scan_positions(s)

\* C31: table_start returns a cursor on the cell holding the smallest key of
\* the table, with end_of_table true exactly when the table is empty;
\* cursor_advance moves to the next cell of the same leaf, or to cell 0 of
\* next_leaf when the leaf is exhausted, and sets end_of_table only when the
\* exhausted leaf has next_leaf = 0; while end_of_table is false the cursor
\* always points at a cell index < num_cells of its leaf.
C31_Cursor ==
    status = "running"
        => /\ table_start_effect(pager)
           /\ \A p \in scan_positions(pager) : cursor_advance_effect(pager, p)

\* C31: a select has just scanned a table of several leaves from the cell
\* with the smallest key, and some cursor position is the last cell of a leaf
\* that has a next leaf
C31_Witness ==
    /\ status = "running"
    /\ last.cmd = "select"
    /\ Len(out) > LEAF_NODE_MAX_CELLS
    /\ out[1].id = SetMin(stored_keys(pager))
    /\ \E p \in scan_positions(pager) :
           /\ p.cell_num + 1 = leaf_node_num_cells(Node(pager, p.page_num))
           /\ leaf_node_next_leaf(Node(pager, p.page_num)) # 0

\* C32: pager_flush on a populated slot either writes exactly PAGE_SIZE bytes
\* at offset page_num * PAGE_SIZE or terminates the process: a short write is
\* fatal and never treated as success; flushing an empty slot is fatal. So a
\* .exit that ends as a success has left every populated page whole in the
\* file, and pager_flush of a slot that holds no page ends the process.
C32_PagerFlush ==
    [][last'.cmd = "exit"
          => /\ status' = "exited"
                    => \A n \in DOMAIN pager.pages :
                           /\ n < Len(pager'.file)
                           /\ pager'.file[n + 1] = pager.pages[n]
             /\ \A n \in 0..(TABLE_MAX_PAGES - 1) :
                    n \notin DOMAIN pager.pages
                        => \A bytes_written \in WriteResults :
                               pager_flush_write(pager, n, bytes_written).fatal]_vars

\* the cells stored in the tree of s
stored_cells(s) ==
    {<<p, i>> \in tree_leaves(s) \X (0..(LEAF_NODE_MAX_CELLS - 1)) :
        i < leaf_node_num_cells(Node(s, p))}

\* the levels of internal nodes above the deepest leaf of s
internal_levels(s) == SetMax(leaf_depths(s, root_page_num, MaxDepth))

\* C33: every insert and every select terminates: the recursion
\* internal_node_insert <-> internal_node_split_and_insert ends after at
\* most one split per tree level, and the select scan reaches end_of_table
\* after visiting each stored cell once.
C33_Terminates ==
    [][/\ last'.cmd = "insert" => last'.result # "diverges"
       /\ InsertStep
              => \E row \in accepted' :
                     /\ row.id = last'.key
                     /\ row \notin accepted
                     /\ Cardinality(split_calls(pager, row)) <= internal_levels(pager)
       /\ last'.cmd = "select"
              => /\ last'.result = "EXECUTE_SUCCESS"
                 /\ Len(out') = Cardinality(stored_cells(pager))
                 /\ {out'[i].id : i \in 1..Len(out')} = stored_keys(pager)]_vars

\* every leaf of s but a leaf root is at least half full, an empty leaf is
\* the root of an empty table, and every internal node of the tree has a key
\* and a right child
min_occupancy(s) ==
    \A n \in tree_pages(s) :
        LET node == Node(s, n)
        IN  IF get_node_type(node) = NODE_LEAF
            THEN /\ n # root_page_num
                     => 2 * leaf_node_num_cells(node) >= LEAF_NODE_MAX_CELLS + 1
                 /\ leaf_node_num_cells(node) = 0
                     => n = root_page_num /\ stored_keys(s) = {}
            ELSE /\ internal_node_num_keys(node) >= 1
                 /\ internal_node_right_child(node) # INVALID_PAGE_NUM

\* no internal node in the pages of s has the right child INVALID_PAGE_NUM
no_invalid_right_child(s) ==
    \A n \in DOMAIN s.pages :
        get_node_type(s.pages[n]) = NODE_INTERNAL
            => internal_node_right_child(s.pages[n]) # INVALID_PAGE_NUM

\* C34: after every completed insert every non-root leaf holds at least 7
\* cells (only a leaf root may hold fewer, and only an empty table has an
\* empty leaf), and every internal node reachable from the root has at least
\* one key and a right child different from INVALID; the INVALID right child
\* exists only inside internal_node_split_and_insert and create_new_root: no
\* page has it when either is called, nor once the insert is complete.
C34_MinOccupancy ==
    [][InsertStep
          => /\ min_occupancy(pager')
             /\ no_invalid_right_child(pager')
             /\ \E row \in accepted' :
                    /\ row.id = last'.key
                    /\ row \notin accepted
                    /\ \A call \in split_calls(pager, row) \cup root_calls(pager, row) :
                           no_invalid_right_child(call.s)]_vars

\* C34: the root has been split as an internal node: its two halves have one
\* key each, and the leaf split that caused it left a leaf with 7 cells
C34_Witness ==
    /\ last.cmd = "insert" /\ last.result = "EXECUTE_SUCCESS"
    /\ \E n \in tree_pages(pager) \ {root_page_num} :
           /\ get_node_type(Node(pager, n)) = NODE_INTERNAL
           /\ internal_node_num_keys(Node(pager, n)) = 1
    /\ \E n \in tree_leaves(pager) :
           2 * leaf_node_num_cells(Node(pager, n)) = LEAF_NODE_MAX_CELLS + 1

split_key_update(call) ==
    Bind(split_prepare(call.s, call.parent, call.child), LAMBDA f :
    Bind(split_move_cells(f.s, f.old_page_num, f.new_page_num), LAMBDA s7 :
    Bind(split_place_child(s7, f.old_page_num, f.new_page_num, call.child,
                           f.child_max), LAMBDA s8 :
    Bind(get_node_max_key(s8, f.old_page_num), LAMBDA mn :
    [s |-> mn.s, page |-> f.parent, old_key |-> f.old_max, new_key |-> mn.key,
     child |-> f.old_page_num]))))

\* the calls of update_internal_node_key that the insert of row makes in s:
\* one for a leaf split below a parent, one for every internal split
key_updates(s, row) ==
    LET c == table_find(s, row.id)
        f == leaf_node_split(c.s, c, row.id, row)
        pp == node_parent(Node(f.s, c.page_num))
        mn == get_node_max_key(f.s, c.page_num)
    IN  IF ~LeafFull(s, row.id) THEN {}
        ELSE {split_key_update(call) : call \in split_calls(s, row)}
             \cup IF is_node_root(Node(f.s, c.page_num)) THEN {}
                  ELSE {[s |-> get_page(mn.s, pp), page |-> pp, old_key |-> f.old_max,
                         new_key |-> mn.key, child |-> c.page_num]}

\* update_internal_node_key of the call writes the key of the separator of
\* `child`, a key index below num_keys, and nothing else
key_update_effect(call) ==
    LET node == Node(call.s, call.page)
        t == update_internal_node_key(call.s, call.page, call.old_key, call.new_key)
    IN  \E i \in 0..(internal_node_num_keys(node) - 1) :
            /\ internal_node_left_child(node, i) = call.child
            /\ t = put(call.s, call.page, set_internal_key(node, i, call.new_key))

\* C36: update_internal_node_key(node, old_key, new_key) replaces exactly
\* the one separator of node whose child subtree contains old_key and writes
\* nothing else: it never writes at key index num_keys or beyond (the slot
\* past the node's last key), also when the child holding old_key is the
\* node's right child.
C36_UpdateKeyFrame ==
    [][InsertStep
          => \E row \in accepted' :
                 /\ row.id = last'.key
                 /\ row \notin accepted
                 /\ \A call \in key_updates(pager, row) : key_update_effect(call)]_vars

\* the values the end_of_table field of a cursor_t can hold when it has
\* not been written: xmalloc returns the memory of malloc as it is
unset_end_of_table == BOOLEAN

\* the cursor_t structs table_find(s, key) can return: leaf_node_find
\* writes table, page_num and cell_num, and leaves end_of_table as
\* allocated
table_find_cursors(s, key) ==
    LET c == table_find(s, key)
    IN  {[page_num |-> c.page_num, cell_num |-> c.cell_num, end_of_table |-> e] :
            e \in unset_end_of_table}

\* C37: The cursor returned by find(key) has all three fields defined:
\* page_num is the leaf reached, cell_num is the search index, and
\* end_of_table equals (num_cells == 0) of that leaf.
C37_FindCursor ==
    [][last'.cmd = "insert"
          => \A cur \in table_find_cursors(pager, last'.key) :
                 LET leaf == Node(pager, cur.page_num)
                     num_cells == leaf_node_num_cells(leaf)
                 IN  /\ get_node_type(leaf) = NODE_LEAF
                     /\ cur.cell_num = leaf_search(leaf, last'.key, 0, num_cells)
                     /\ cur.end_of_table = (num_cells = 0)]_vars

\* the part of C37 about page_num and cell_num
C37_FindCursorWritten ==
    [][last'.cmd = "insert"
          => \A cur \in table_find_cursors(pager, last'.key) :
                 LET leaf == Node(pager, cur.page_num)
                     num_cells == leaf_node_num_cells(leaf)
                 IN  /\ get_node_type(leaf) = NODE_LEAF
                     /\ cur.cell_num = leaf_search(leaf, last'.key, 0, num_cells)]_vars

====
